---------------------------- MODULE Spec2Model ----------------------------
(***************************************************************************)
(* Model of the per-user quota, memory, session-state and tier layer of    *)
(* the homework-helper bot (src/main.py), together with the older store    *)
(* functions of src/database.py.                                           *)
(*                                                                         *)
(* The persistent store is the SQLite file bot.db.  Every store function   *)
(* opens its own connection; a statement is one suspension point of the    *)
(* coroutine that runs it.  SQLite lets one connection write at a time:    *)
(* the first INSERT/UPDATE/DELETE of a connection opens a transaction and  *)
(* takes the write lock, COMMIT publishes the changes and releases it; a   *)
(* SELECT of another connection sees committed rows only.                  *)
(***************************************************************************)
EXTENDS Integers, Sequences, FiniteSets, TLC

(***************************************************************************)
(* Program constants.                                                      *)
(***************************************************************************)
MEMORY_LIMIT == 10
REQUEST_LIMIT == 50
PREMIUM_REQUEST_LIMIT == 500
\* float('inf'): larger than every number it is compared with
inf == 1000000
\* the slice mem[-3:] of call_openai_with_prompt
ContextSize == 3

(***************************************************************************)
(* Bounds of the model.                                                    *)
(***************************************************************************)
\* days the calendar runs through
MaxDay == 2
\* requests recorded past the premium ceiling for the user driven to it
MaxOver == 2
\* requests recorded per day, and rows held, for every other user
MaxLight == 1
\* save_memory calls of one behaviour of the sequential memory model
MaxInserts == 12

\* handlers the dispatcher runs at the same time
MaxTasks == 2
\* updates (messages) dispatched in one behaviour of the handler model
MaxRuns == 2
\* updates handled in a behaviour that presses the broadcast buttons
MaxClicks == 3

Tasks == 1..MaxTasks

\* user ids; AdminCandidates are the ids a deployment may list in ADMIN_IDS
Users == {1, 2}
AdminCandidates == {2}

VARIABLES
    ADMIN_IDS,        \* the configured admin set (fixed while the process runs)
    today,            \* date.today()
    clock,            \* datetime.now(): the next timestamp it returns
    user_requests,    \* table user_requests: user_id -> [date, count]
    premium_users,    \* table premium_users: set of user_id
    user_memory,      \* table user_memory: set of rows [id, user_id, timestamp]
    memory_seq,       \* AUTOINCREMENT: the largest id ever given
    user_state,       \* table user_state: user_id -> state
    users,            \* table users: user_id -> profile
    charged,          \* per user: update_request_count calls returned today
    saved,            \* per user: the ids save_memory inserted since the
                      \* user's memory was last cleared, oldest first
    base,             \* per user: the count effective for today when the day
                      \* (or the process) started
    retiered,         \* the users whose tier was changed today
    admin_broadcast_state,  \* dict: admin id -> the composed broadcast text
    tasks,            \* the handler each dispatcher task runs, and where it is
    db_lock,          \* the task whose connection holds SQLite's write lock, or 0
    runs,             \* updates dispatched so far
    last              \* the store call that returned last, what it returned
                      \* and the tables as they were when it was called

env == <<ADMIN_IDS, today, clock>>
tables == <<user_requests, premium_users, user_memory, memory_seq,
            user_state, users>>
\* what the model records about the run, beside the program's state
ghost == <<charged, saved, base, retiered>>
\* the dispatcher's tasks and what lives in the process beside the store
proc == <<admin_broadcast_state, tasks, db_lock, runs>>
vars == <<ADMIN_IDS, today, clock, user_requests, premium_users, user_memory,
          memory_seq, user_state, users, charged, saved, base, retiered,
          admin_broadcast_state, tasks, db_lock, runs, last>>

Max(a, b) == IF a >= b THEN a ELSE b

\* the tables as one value (what `last.pre` holds)
Snapshot ==
    [user_requests |-> user_requests, premium_users |-> premium_users,
     user_memory |-> user_memory, memory_seq |-> memory_seq,
     user_state |-> user_state, users |-> users]

NoCall == [op |-> "none", user |-> 0, ret |-> <<>>, today |-> 0]

\* a dispatcher task that runs no handler; log lists what a handler has
\* done so far: "left" (get_requests_left returned more than 0), "no_text"
\* (nothing extracted), "llm_ok", "llm_failed", "charged", "saved"
Idle == [h |-> "idle", pc |-> "idle", u |-> 0, state |-> <<>>, arg |-> <<>>,
         row |-> <<>>, day |-> 0, ts |-> 0, mem |-> <<>>, tx |-> <<>>,
         log |-> <<>>]

(***************************************************************************)
(* Quota record.                                                           *)
(***************************************************************************)
\* cursor.fetchone() of "SELECT count, date FROM user_requests WHERE
\* user_id = ?": <<>> is None, <<row>> the row
SelectRequest(table, u) == IF u \in DOMAIN table THEN <<table[u]>> ELSE <<>>

\* is_premium_user: bool(fetchone()) of the premium_users lookup
is_premium_user(premium, u) == u \in premium

\* WriteRequest that carries the count over to a new day instead of starting at 1
WriteRequest_Accumulating(table, u, req, day) ==
    IF req = <<>>
    THEN (u :> [date |-> day, count |-> 1]) @@ table
    ELSE (u :> [date |-> day, count |-> req[1].count + 1]) @@ table

\* the statement update_request_count executes after it read `req`,
\* applied to the table as it is when the statement runs
WriteRequest(table, u, req, day) ==
    IF req = <<>> \/ req[1].date # day
    THEN (u :> [date |-> day, count |-> 1]) @@ table
    ELSE IF u \in DOMAIN table
         THEN [table EXCEPT ![u].count = @ + 1]
         ELSE table

\* RequestsLeft with the standard ceiling for every tier
RequestsLeft_StandardOnly(req, premium, day) ==
    IF req = <<>> \/ req[1].date # day
    THEN REQUEST_LIMIT
    ELSE Max(0, REQUEST_LIMIT - req[1].count)

\* RequestsLeft without the clamp at 0
RequestsLeft_Unclamped(req, premium, day) ==
    LET limit == IF premium THEN PREMIUM_REQUEST_LIMIT ELSE REQUEST_LIMIT
    IN  IF req = <<>> \/ req[1].date # day
        THEN limit
        ELSE limit - req[1].count

\* RequestsLeft that never compares the stored date with today
RequestsLeft_IgnoringDate(req, premium, day) ==
    LET limit == IF premium THEN PREMIUM_REQUEST_LIMIT ELSE REQUEST_LIMIT
    IN  IF req = <<>>
        THEN limit
        ELSE Max(0, limit - req[1].count)

\* what get_requests_left returns from the row and the tier it read
RequestsLeft(req, premium, day) ==
    LET limit == IF premium THEN PREMIUM_REQUEST_LIMIT ELSE REQUEST_LIMIT
    IN  IF req = <<>> \/ req[1].date # day
        THEN limit
        ELSE Max(0, limit - req[1].count)

\* update_request_count run without interleaving
update_request_count(u) ==
    /\ user_requests' =
          IF u \in ADMIN_IDS
          THEN user_requests
          ELSE WriteRequest(user_requests, u, SelectRequest(user_requests, u), today)
    /\ last' = [op |-> "update_request_count", user |-> u, ret |-> <<>>,
                today |-> today, pre |-> Snapshot]
    /\ charged' = [charged EXCEPT ![u] = @ + 1]
    /\ UNCHANGED <<env, premium_users, user_memory, memory_seq, user_state,
                   users, saved, base, retiered, proc>>

\* get_requests_left that stores the reset when it finds a record of another day
get_requests_left_Persisting(u) ==
    /\ last' = [op |-> "get_requests_left", user |-> u,
                ret |-> IF u \in ADMIN_IDS
                        THEN <<inf>>
                        ELSE <<RequestsLeft(SelectRequest(user_requests, u),
                                            is_premium_user(premium_users, u),
                                            today)>>,
                today |-> today, pre |-> Snapshot]
    /\ user_requests' =
          IF u \in DOMAIN user_requests /\ user_requests[u].date # today
          THEN [user_requests EXCEPT ![u] = [date |-> today, count |-> 0]]
          ELSE user_requests
    /\ UNCHANGED <<env, premium_users, user_memory, memory_seq, user_state,
                   users, ghost, proc>>

\* get_requests_left run without interleaving
get_requests_left(u) ==
    /\ last' = [op |-> "get_requests_left", user |-> u,
                ret |-> IF u \in ADMIN_IDS
                        THEN <<inf>>
                        ELSE <<RequestsLeft(SelectRequest(user_requests, u),
                                            is_premium_user(premium_users, u),
                                            today)>>,
                today |-> today, pre |-> Snapshot]
    /\ UNCHANGED <<env, tables, ghost, proc>>

(***************************************************************************)
(* Tier registry.                                                          *)
(***************************************************************************)
\* add_premium_user with a plain INSERT, which the primary key rejects for
\* a user already in the table
add_premium_user_PlainInsert(u) ==
    /\ u \notin premium_users
    /\ premium_users' = premium_users \cup {u}
    /\ last' = [op |-> "add_premium_user", user |-> u, ret |-> <<>>,
                today |-> today, pre |-> Snapshot]
    /\ retiered' = retiered \cup {u}
    /\ UNCHANGED <<env, user_requests, user_memory, memory_seq, user_state,
                   users, charged, saved, base, proc>>

add_premium_user(u) ==
    /\ premium_users' = premium_users \cup {u}
    /\ last' = [op |-> "add_premium_user", user |-> u, ret |-> <<>>,
                today |-> today, pre |-> Snapshot]
    /\ retiered' = IF premium_users' = premium_users
                   THEN retiered
                   ELSE retiered \cup {u}
    /\ UNCHANGED <<env, user_requests, user_memory, memory_seq, user_state,
                   users, charged, saved, base, proc>>

\* a remove_premium_user that deletes the user's quota record as well
remove_premium_user_ResettingQuota(u) ==
    /\ premium_users' = premium_users \ {u}
    /\ user_requests' = [v \in DOMAIN user_requests \ {u} |-> user_requests[v]]
    /\ last' = [op |-> "remove_premium_user", user |-> u, ret |-> <<>>,
                today |-> today, pre |-> Snapshot]
    /\ retiered' = IF premium_users' = premium_users
                   THEN retiered
                   ELSE retiered \cup {u}
    /\ UNCHANGED <<env, user_memory, memory_seq, user_state,
                   users, charged, saved, base, proc>>

remove_premium_user(u) ==
    /\ premium_users' = premium_users \ {u}
    /\ last' = [op |-> "remove_premium_user", user |-> u, ret |-> <<>>,
                today |-> today, pre |-> Snapshot]
    /\ retiered' = IF premium_users' = premium_users
                   THEN retiered
                   ELSE retiered \cup {u}
    /\ UNCHANGED <<env, user_requests, user_memory, memory_seq, user_state,
                   users, charged, saved, base, proc>>

(***************************************************************************)
(* Conversation memory.  A row of user_memory is [id, user_id, timestamp]; *)
(* the id stands for the (question, answer) pair stored with it.           *)
(***************************************************************************)
\* the rows of user u
RowsOf(mem, u) == {r \in mem : r.user_id = u}

\* r comes before q in timestamp order; rows of equal timestamp come in
\* rowid order, the order the table is scanned in
Before(r, q) ==
    \/ r.timestamp < q.timestamp
    \/ r.timestamp = q.timestamp /\ r.id < q.id

RECURSIVE OrderByTimestamp(_)
\* ORDER BY timestamp ASC: the rows as a sequence
OrderByTimestamp(rows) ==
    IF rows = {}
    THEN <<>>
    ELSE LET first == CHOOSE r \in rows : \A q \in rows \ {r} : Before(r, q)
         IN  <<first>> \o OrderByTimestamp(rows \ {first})

\* ORDER BY timestamp DESC
RECURSIVE OrderByTimestampDesc(_)
OrderByTimestampDesc(rows) ==
    IF rows = {}
    THEN <<>>
    ELSE LET first == CHOOSE r \in rows : \A q \in rows \ {r} :
                          \/ r.timestamp > q.timestamp
                          \/ r.timestamp = q.timestamp /\ r.id < q.id
         IN  <<first>> \o OrderByTimestampDesc(rows \ {first})

\* the INSERT of save_memory: AUTOINCREMENT gives the next id never used
InsertMemory(mem, seq, u, ts) ==
    mem \cup {[id |-> seq + 1, user_id |-> u, timestamp |-> ts]}

\* EvictOldest that keeps one row more than the limit
EvictOldest_OffByOne(mem, u) ==
    LET memories == OrderByTimestamp(RowsOf(mem, u))
    IN  IF Len(memories) > MEMORY_LIMIT + 1
        THEN mem \ {memories[i] : i \in 1..(Len(memories) - MEMORY_LIMIT - 1)}
        ELSE mem

\* EvictOldest that deletes memories[-MEMORY_LIMIT:], the newest rows
EvictOldest_Newest(mem, u) ==
    LET memories == OrderByTimestamp(RowsOf(mem, u))
    IN  IF Len(memories) > MEMORY_LIMIT
        THEN mem \ {memories[i] : i \in (Len(memories) - MEMORY_LIMIT + 1)..Len(memories)}
        ELSE mem

\* the SELECT and the DELETE loop of save_memory: memories[:-MEMORY_LIMIT]
EvictOldest(mem, u) ==
    LET memories == OrderByTimestamp(RowsOf(mem, u))
    IN  IF Len(memories) > MEMORY_LIMIT
        THEN mem \ {memories[i] : i \in 1..(Len(memories) - MEMORY_LIMIT)}
        ELSE mem

\* a get_memory that orders by timestamp ASC
SelectMemory_OldestFirst(mem, u) ==
    LET rows == OrderByTimestamp(RowsOf(mem, u))
    IN  [i \in 1..Len(rows) |-> rows[i].id]

\* what get_memory returns: the user's rows, newest timestamp first
SelectMemory(mem, u) ==
    LET rows == OrderByTimestampDesc(RowsOf(mem, u))
    IN  [i \in 1..Len(rows) |-> rows[i].id]

\* a DELETE that spares the user's newest row
DeleteMemory_SparingNewest(mem, u) ==
    {r \in mem : r.user_id = u => \A q \in RowsOf(mem, u) : q.id <= r.id}

\* the DELETE of clear_memory
DeleteMemory(mem, u) == mem \ RowsOf(mem, u)

\* save_memory run without interleaving
save_memory(u) ==
    /\ user_memory' = EvictOldest(InsertMemory(user_memory, memory_seq, u, clock), u)
    /\ memory_seq' = memory_seq + 1
    /\ clock' = clock + 1
    /\ saved' = [saved EXCEPT ![u] = Append(@, memory_seq + 1)]
    /\ last' = [op |-> "save_memory", user |-> u, ret |-> <<>>,
                today |-> today, pre |-> Snapshot]
    /\ UNCHANGED <<ADMIN_IDS, today, user_requests, premium_users, user_state,
                   users, charged, base, retiered, proc>>

\* get_memory run without interleaving
get_memory(u) ==
    /\ last' = [op |-> "get_memory", user |-> u,
                ret |-> SelectMemory(user_memory, u),
                today |-> today, pre |-> Snapshot]
    /\ UNCHANGED <<env, tables, ghost, proc>>

\* clear_memory run without interleaving
clear_memory(u) ==
    /\ user_memory' = DeleteMemory(user_memory, u)
    /\ last' = [op |-> "clear_memory", user |-> u, ret |-> <<>>,
                today |-> today, pre |-> Snapshot]
    /\ saved' = [saved EXCEPT ![u] = <<>>]
    /\ UNCHANGED <<env, user_requests, premium_users, memory_seq, user_state,
                   users, charged, base, retiered, proc>>

\* mem[-k:]: the last k elements of mem, all of it when it has fewer
LastOf(mem, k) == SubSeq(mem, Max(1, Len(mem) - k + 1), Len(mem))

\* the message list of call_openai_with_prompt for the get_memory result
\* mem: the system prompt, a user and an assistant message for each
\* exchange of mem[-3:] in the order of that slice, the new prompt.  An
\* exchange is named by the id of its row, the system and the new prompt by 0.
Messages(mem) ==
    LET prior == LastOf(mem, ContextSize)
    IN  <<[role |-> "system", id |-> 0]>>
        \o [i \in 1..(2 * Len(prior)) |->
               [role |-> IF i % 2 = 1 THEN "user" ELSE "assistant",
                id |-> prior[(i + 1) \div 2]]]
        \o <<[role |-> "user", id |-> 0]>>

\* reversed(mem)
Reversed(mem) == [i \in 1..Len(mem) |-> mem[Len(mem) - i + 1]]

\* build_memory_text run without interleaving: the numbered lines, line i
\* for the i-th exchange of reversed(mem); the admin's view of a user's
\* memory in handle_text numbers its lines in the same way
build_memory_text(u) ==
    /\ last' = [op |-> "build_memory_text", user |-> u,
                ret |-> Reversed(SelectMemory(user_memory, u)),
                today |-> today, pre |-> Snapshot]
    /\ UNCHANGED <<env, tables, ghost, proc>>

\* call_openai_with_prompt run without interleaving, up to the request it
\* sends: what the completion returns changes nothing in the store
call_openai_with_prompt(u) ==
    /\ last' = [op |-> "call_openai_with_prompt", user |-> u,
                ret |-> Messages(SelectMemory(user_memory, u)),
                today |-> today, pre |-> Snapshot]
    /\ UNCHANGED <<env, tables, ghost, proc>>

(***************************************************************************)
(* The message handlers.  The dispatcher runs every update in a task of    *)
(* its own, so handlers interleave at their awaits, also those of one      *)
(* user.  A task's pc names the await it is about to pass.  A write        *)
(* statement waits for SQLite's write lock; what a transaction wrote is in *)
(* the task's tx until its COMMIT.                                         *)
(***************************************************************************)
\* session states (the source spells the last one "awaiting_conspект")
AwaitingStates == {"awaiting_text", "awaiting_photo", "awaiting_conspect"}
AdminStates == {"admin_broadcast", "admin_view_memory", "admin_add_premium",
                "admin_remove_premium"}

\* get_user_state: state[0] if state else None
SelectState(table, u) == IF u \in DOMAIN table THEN <<table[u]>> ELSE <<>>

\* a DELETE without its WHERE clause
DeleteState_AllUsers(table, u) == <<>>

\* the DELETE of clear_user_state
DeleteState(table, u) == [v \in DOMAIN table \ {u} |-> table[v]]

\* cursor.fetchone() of "SELECT * FROM users WHERE user_id = ?"
SelectUser(table, u) == IF u \in DOMAIN table THEN <<table[u]>> ELSE <<>>

\* the UPDATE of update_user_stats for a message of type h
CountMessage(profile, h, now) ==
    [profile EXCEPT
        !.last_seen = now,
        !.message_count = IF h = "text" THEN @ + 1 ELSE @,
        !.photo_count = IF h = "photo" THEN @ + 1 ELSE @,
        !.document_count = IF h = "document" THEN @ + 1 ELSE @]

\* the INSERT (when the SELECT found no row) and the UPDATE of update_user_stats
WriteUserStats(table, u, user, h, now) ==
    LET inserted ==
            IF user = <<>>
            THEN (u :> [first_seen |-> now, last_seen |-> now, message_count |-> 0,
                        photo_count |-> 0, document_count |-> 0]) @@ table
            ELSE table
    IN  IF u \in DOMAIN inserted
        THEN [inserted EXCEPT ![u] = CountMessage(@, h, now)]
        ELSE inserted

\* the task moves on as record r
Goto(t, r) == tasks' = [tasks EXCEPT ![t] = r]
\* the handler returns
Return(t) == tasks' = [tasks EXCEPT ![t] = Idle]

\* what a step of a task leaves alone when it only reads
onlyTask == <<env, tables, ghost, admin_broadcast_state, db_lock, runs, last>>

\* the dispatcher starts handler h for an update of user u
Dispatch(t, h, u) ==
    /\ runs < MaxRuns
    /\ tasks[t] = Idle
    /\ \A t2 \in Tasks : t2 < t => tasks[t2] # Idle
    /\ runs' = runs + 1
    /\ Goto(t, [Idle EXCEPT !.h = h, !.u = u, !.pc = "get_user_state"])
    /\ UNCHANGED <<env, tables, ghost, admin_broadcast_state, db_lock, last>>

\* handle_text up to its second await: get_user_state, the empty-text
\* return and the admin sub-flows
HandleTextState(t) ==
    LET me == tasks[t]
        st == SelectState(user_state, me.u)
        admin == me.u \in ADMIN_IDS
        in(flow) == admin /\ st = <<flow>>
    IN  /\ me.h = "text" /\ me.pc = "get_user_state"
        /\ \/ /\ Return(t)
              /\ UNCHANGED admin_broadcast_state
           \/ /\ in("admin_broadcast")
              /\ admin_broadcast_state' = (me.u :> "text") @@ admin_broadcast_state
              /\ Goto(t, [me EXCEPT !.state = st, !.pc = "clear_user_state"])
           \/ /\ in("admin_view_memory")
              /\ UNCHANGED admin_broadcast_state
              /\ \/ Goto(t, [me EXCEPT !.state = st, !.pc = "clear_user_state"])
                 \/ \E target \in Users :
                       Goto(t, [me EXCEPT !.state = st, !.arg = <<target>>,
                                          !.pc = "view_memory"])
           \/ /\ in("admin_add_premium") \/ in("admin_remove_premium")
              /\ UNCHANGED admin_broadcast_state
              /\ \/ Goto(t, [me EXCEPT !.state = st, !.pc = "clear_user_state"])
                 \/ \E target \in Users :
                       Goto(t, [me EXCEPT !.state = st, !.arg = <<target>>,
                                          !.pc = "premium_write"])
           \/ /\ ~(admin /\ st # <<>> /\ st[1] \in AdminStates)
              /\ UNCHANGED admin_broadcast_state
              /\ Goto(t, [me EXCEPT !.state = st, !.pc = "stats_select"])
        /\ UNCHANGED <<env, tables, ghost, db_lock, runs, last>>

\* handle_photo up to its second await
HandlePhotoState(t) ==
    LET me == tasks[t]
    IN  /\ me.h = "photo" /\ me.pc = "get_user_state"
        /\ Goto(t, [me EXCEPT !.state = SelectState(user_state, me.u),
                              !.pc = "stats_select"])
        /\ UNCHANGED onlyTask

\* handle_document up to its second await: a document is taken only in the
\* states awaiting_text and awaiting_conspect
HandleDocumentState(t) ==
    LET me == tasks[t]
        st == SelectState(user_state, me.u)
    IN  /\ me.h = "document" /\ me.pc = "get_user_state"
        /\ IF st # <<>> /\ st[1] \in {"awaiting_text", "awaiting_conspect"}
           THEN Goto(t, [me EXCEPT !.state = st, !.pc = "stats_select"])
           ELSE Return(t)
        /\ UNCHANGED onlyTask

\* the buttons of callbacks_handler that start a flow, and the session
\* state each of them sets
Buttons == {"btn_solve_text", "btn_solve_photo", "btn_conspect"}
ButtonState(data) ==
    CASE data = "btn_solve_text" -> "awaiting_text"
      [] data = "btn_solve_photo" -> "awaiting_photo"
      [] OTHER -> "awaiting_conspect"

\* what follows the quota check: the LLM call for a text, the download for
\* a photo, the file-type check and the download for a document,
\* set_user_state for a button
AfterQuota(me) ==
    CASE me.h = "text" -> {[me EXCEPT !.pc = "llm_memory"]}
      [] me.h = "photo" -> {[me EXCEPT !.pc = "download"]}
      [] me.h = "document" -> {[me EXCEPT !.pc = "download"], Idle}
      [] OTHER -> {[me EXCEPT !.pc = "set_user_state"]}

\* update_user_stats: datetime.now() and the SELECT
StatsSelect(t) ==
    LET me == tasks[t]
    IN  /\ me.pc = "stats_select"
        /\ clock' = clock + 1
        /\ Goto(t, [me EXCEPT !.row = SelectUser(users, me.u), !.ts = clock,
                              !.pc = "stats_write"])
        /\ UNCHANGED <<ADMIN_IDS, today, tables, ghost, admin_broadcast_state,
                       db_lock, runs, last>>

\* update_user_stats: the INSERT and the UPDATE.  The INSERT of a row that
\* another task inserted since the SELECT violates the primary key: the
\* exception ends the handler.
StatsWrite(t) ==
    LET me == tasks[t]
    IN  /\ me.pc = "stats_write"
        /\ db_lock = 0
        /\ IF me.row = <<>> /\ me.u \in DOMAIN users
           THEN Return(t) /\ UNCHANGED db_lock
           ELSE /\ db_lock' = t
                /\ Goto(t, [me EXCEPT
                       !.tx = <<WriteUserStats(users, me.u, me.row, me.h, me.ts)>>,
                       !.row = <<>>, !.ts = 0, !.pc = "stats_commit"])
        /\ UNCHANGED <<env, tables, ghost, admin_broadcast_state, runs, last>>

\* update_user_stats: COMMIT; then get_requests_left, which returns
\* float('inf') for an admin without reading the store
StatsCommit(t) ==
    LET me == tasks[t]
        done == [me EXCEPT !.tx = <<>>]
    IN  /\ me.pc = "stats_commit"
        /\ users' = me.tx[1]
        /\ db_lock' = 0
        /\ IF me.u \in ADMIN_IDS
           THEN \E r \in AfterQuota(done) : Goto(t, r)
           ELSE Goto(t, [done EXCEPT !.pc = "left_select"])
        /\ UNCHANGED <<env, user_requests, premium_users, user_memory, memory_seq,
                       user_state, ghost, admin_broadcast_state, runs, last>>

\* get_requests_left: date.today() and the SELECT of the quota record
LeftSelect(t) ==
    LET me == tasks[t]
    IN  /\ me.pc = "left_select"
        /\ Goto(t, [me EXCEPT !.row = SelectRequest(user_requests, me.u),
                              !.day = today, !.pc = "left_premium"])
        /\ UNCHANGED onlyTask

\* a handler that goes on whatever get_requests_left returned
LeftPremium_NoDeny(t) ==
    LET me == tasks[t]
        left == RequestsLeft(me.row, is_premium_user(premium_users, me.u), me.day)
        log == IF left > 0 THEN Append(me.log, "left") ELSE me.log
    IN  /\ me.pc = "left_premium"
        /\ \E r \in AfterQuota([me EXCEPT !.row = <<>>, !.day = 0, !.log = log]) :
              Goto(t, r)
        /\ UNCHANGED onlyTask

\* get_requests_left: is_premium_user and the result; the handler returns
\* when nothing is left
LeftPremium(t) ==
    LET me == tasks[t]
        left == RequestsLeft(me.row, is_premium_user(premium_users, me.u), me.day)
    IN  /\ me.pc = "left_premium"
        /\ IF left <= 0
           THEN Return(t)
           ELSE \E r \in AfterQuota([me EXCEPT !.row = <<>>, !.day = 0,
                                              !.log = Append(@, "left")]) :
                   Goto(t, r)
        /\ UNCHANGED onlyTask

\* the download of the photo or the document; a document's text is
\* extracted without a further await
Download(t) ==
    LET me == tasks[t]
    IN  /\ me.pc = "download"
        /\ \/ Return(t)
           \/ me.h = "photo" /\ Goto(t, [me EXCEPT !.pc = "ocr"])
           \/ me.h = "document" /\ Goto(t, [me EXCEPT !.log = Append(@, "no_text"),
                                                      !.pc = "clear_user_state"])
           \/ me.h = "document" /\ Goto(t, [me EXCEPT !.pc = "llm_memory"])
        /\ UNCHANGED onlyTask

\* a handler that sends an empty OCR result to the LLM
Ocr_IgnoringEmpty(t) ==
    LET me == tasks[t]
    IN  /\ me.pc = "ocr"
        /\ \/ Goto(t, [me EXCEPT !.log = Append(@, "no_text"), !.pc = "llm_memory"])
           \/ Goto(t, [me EXCEPT !.pc = "llm_memory"])
        /\ UNCHANGED onlyTask

\* ocr_image_from_bytes: some text, or "" on failure
Ocr(t) ==
    LET me == tasks[t]
    IN  /\ me.pc = "ocr"
        /\ \/ Goto(t, [me EXCEPT !.log = Append(@, "no_text"),
                                 !.pc = "clear_user_state"])
           \/ Goto(t, [me EXCEPT !.pc = "llm_memory"])
        /\ UNCHANGED onlyTask

\* call_openai_with_prompt: get_memory
LlmMemory(t) ==
    LET me == tasks[t]
    IN  /\ me.pc = "llm_memory"
        /\ Goto(t, [me EXCEPT !.mem = SelectMemory(user_memory, me.u),
                              !.pc = "llm_call"])
        /\ UNCHANGED onlyTask

\* a handler that charges the request although the completion raised
LlmCall_ChargingOnFailure(t) ==
    LET me == tasks[t]
        after == [me EXCEPT !.mem = <<>>]
        next == IF me.u \in ADMIN_IDS THEN "save_now" ELSE "request_select"
    IN  /\ me.pc = "llm_call"
        /\ \/ Goto(t, [after EXCEPT !.log = Append(@, "llm_failed"), !.pc = next])
           \/ Goto(t, [after EXCEPT !.log = Append(@, "llm_ok"), !.pc = next])
        /\ UNCHANGED onlyTask

\* call_openai_with_prompt: the completion returns or raises
LlmCall(t) ==
    LET me == tasks[t]
        after == [me EXCEPT !.mem = <<>>]
    IN  /\ me.pc = "llm_call"
        /\ \/ Goto(t, [after EXCEPT !.log = Append(@, "llm_failed"),
                                    !.pc = "clear_user_state"])
           \/ Goto(t, [after EXCEPT !.log = Append(@, "llm_ok"),
                                    !.pc = IF me.u \in ADMIN_IDS
                                           THEN "save_now"
                                           ELSE "request_select"])
        /\ UNCHANGED onlyTask

\* update_request_count: date.today() and the SELECT
RequestSelect(t) ==
    LET me == tasks[t]
    IN  /\ me.pc = "request_select"
        /\ Goto(t, [me EXCEPT !.row = SelectRequest(user_requests, me.u),
                              !.day = today, !.pc = "request_write"])
        /\ UNCHANGED onlyTask

\* update_request_count: INSERT OR REPLACE, or UPDATE
RequestWrite(t) ==
    LET me == tasks[t]
    IN  /\ me.pc = "request_write"
        /\ db_lock = 0
        /\ db_lock' = t
        /\ Goto(t, [me EXCEPT
               !.tx = <<WriteRequest(user_requests, me.u, me.row, me.day)>>,
               !.row = <<>>, !.day = 0, !.pc = "request_commit"])
        /\ UNCHANGED <<env, tables, ghost, admin_broadcast_state, runs, last>>

\* update_request_count: COMMIT
RequestCommit(t) ==
    LET me == tasks[t]
    IN  /\ me.pc = "request_commit"
        /\ user_requests' = me.tx[1]
        /\ db_lock' = 0
        /\ charged' = [charged EXCEPT ![me.u] = @ + 1]
        /\ Goto(t, [me EXCEPT !.tx = <<>>, !.log = Append(@, "charged"),
                              !.pc = "save_now"])
        /\ UNCHANGED <<env, premium_users, user_memory, memory_seq, user_state,
                       users, saved, base, retiered, admin_broadcast_state,
                       runs, last>>

\* save_memory: datetime.now(), evaluated before the INSERT is sent
SaveNow(t) ==
    LET me == tasks[t]
    IN  /\ me.pc = "save_now"
        /\ clock' = clock + 1
        /\ Goto(t, [me EXCEPT !.ts = clock, !.pc = "save_insert"])
        /\ UNCHANGED <<ADMIN_IDS, today, tables, ghost, admin_broadcast_state,
                       db_lock, runs, last>>

\* save_memory: the INSERT
SaveInsert(t) ==
    LET me == tasks[t]
    IN  /\ me.pc = "save_insert"
        /\ db_lock = 0
        /\ db_lock' = t
        /\ Goto(t, [me EXCEPT
               !.tx = <<InsertMemory(user_memory, memory_seq, me.u, me.ts)>>,
               !.ts = 0, !.pc = "save_evict"])
        /\ UNCHANGED <<env, tables, ghost, admin_broadcast_state, runs, last>>

\* save_memory: the SELECT of the user's ids and the DELETEs
SaveEvict(t) ==
    LET me == tasks[t]
    IN  /\ me.pc = "save_evict"
        /\ Goto(t, [me EXCEPT !.tx = <<EvictOldest(me.tx[1], me.u)>>,
                              !.pc = "save_commit"])
        /\ UNCHANGED onlyTask

\* save_memory: COMMIT
SaveCommit(t) ==
    LET me == tasks[t]
    IN  /\ me.pc = "save_commit"
        /\ user_memory' = me.tx[1]
        /\ memory_seq' = memory_seq + 1
        /\ db_lock' = 0
        /\ saved' = [saved EXCEPT ![me.u] = Append(@, memory_seq + 1)]
        /\ Goto(t, [me EXCEPT !.tx = <<>>, !.log = Append(@, "saved"),
                              !.pc = "clear_user_state"])
        /\ UNCHANGED <<env, user_requests, premium_users, user_state, users,
                       charged, base, retiered, admin_broadcast_state, runs, last>>

\* clear_user_state: the DELETE
ClearState(t) ==
    LET me == tasks[t]
    IN  /\ me.pc = "clear_user_state"
        /\ db_lock = 0
        /\ db_lock' = t
        /\ Goto(t, [me EXCEPT !.tx = <<DeleteState(user_state, me.u)>>,
                              !.pc = "clear_commit"])
        /\ UNCHANGED <<env, tables, ghost, admin_broadcast_state, runs, last>>

\* clear_user_state: COMMIT; the handler replies and returns, the
\* broadcast sub-flow counts the recipients first
ClearCommit(t) ==
    LET me == tasks[t]
    IN  /\ me.pc = "clear_commit"
        /\ user_state' = me.tx[1]
        /\ db_lock' = 0
        /\ IF me.u \in ADMIN_IDS /\ me.state = <<"admin_broadcast">>
           THEN Goto(t, [me EXCEPT !.tx = <<>>, !.pc = "get_all_users_stats"])
           ELSE Return(t)
        /\ UNCHANGED <<env, user_requests, premium_users, user_memory, memory_seq,
                       users, ghost, admin_broadcast_state, runs, last>>

\* the broadcast sub-flow: len(await get_all_users_stats())
GetAllUsersStats(t) ==
    LET me == tasks[t]
    IN  /\ me.pc = "get_all_users_stats"
        /\ Return(t)
        /\ UNCHANGED onlyTask

\* the memory sub-flow: get_memory(target_user_id)
ViewMemory(t) ==
    LET me == tasks[t]
    IN  /\ me.pc = "view_memory"
        /\ Goto(t, [me EXCEPT !.mem = SelectMemory(user_memory, me.arg[1]),
                              !.pc = "view_reply"])
        /\ UNCHANGED onlyTask

\* the memory sub-flow: the reply with the history; a reply that raises
\* ends the handler before clear_user_state
ViewReply(t) ==
    LET me == tasks[t]
    IN  /\ me.pc = "view_reply"
        /\ \/ Goto(t, [me EXCEPT !.mem = <<>>, !.arg = <<>>,
                                 !.pc = "clear_user_state"])
           \/ Return(t)
        /\ UNCHANGED onlyTask

\* the tier sub-flows: the INSERT OR IGNORE of add_premium_user, the DELETE
\* of remove_premium_user
PremiumWrite(t) ==
    LET me == tasks[t]
    IN  /\ me.pc = "premium_write"
        /\ db_lock = 0
        /\ db_lock' = t
        /\ Goto(t, [me EXCEPT
               !.tx = <<IF me.state = <<"admin_add_premium">>
                        THEN premium_users \cup {me.arg[1]}
                        ELSE premium_users \ {me.arg[1]}>>,
               !.pc = "premium_commit"])
        /\ UNCHANGED <<env, tables, ghost, admin_broadcast_state, runs, last>>

\* the tier sub-flows: COMMIT and the reply; a reply that raises ends the
\* handler before clear_user_state
PremiumCommit(t) ==
    LET me == tasks[t]
    IN  /\ me.pc = "premium_commit"
        /\ premium_users' = me.tx[1]
        /\ db_lock' = 0
        /\ retiered' = IF me.tx[1] = premium_users
                       THEN retiered
                       ELSE retiered \cup {me.arg[1]}
        /\ \/ Goto(t, [me EXCEPT !.tx = <<>>, !.arg = <<>>,
                                 !.pc = "clear_user_state"])
           \/ Return(t)
        /\ UNCHANGED <<env, user_requests, user_memory, memory_seq, user_state,
                       users, charged, saved, base, admin_broadcast_state, runs, last>>

(***************************************************************************)
(* callbacks_handler for the buttons that start a flow.                    *)
(***************************************************************************)
\* callback.answer(), then get_requests_left, which returns float('inf')
\* for an admin without reading the store
CallbackAnswer(t) ==
    LET me == tasks[t]
    IN  /\ me.pc = "callback_answer"
        /\ Goto(t, [me EXCEPT !.pc =
               CASE me.h = "btn_clear_memory" -> "clear_memory"
                 [] me.h \in {"btn_cancel", "btn_back_main"} -> "clear_user_state"
                 [] me.u \in ADMIN_IDS -> "set_user_state"
                 [] OTHER -> "left_select"])
        /\ UNCHANGED onlyTask

\* a set_user_state that inserts without replacing
SetState_KeepingOld(t) ==
    LET me == tasks[t]
    IN  /\ me.pc = "set_user_state"
        /\ db_lock = 0
        /\ db_lock' = t
        /\ Goto(t, [me EXCEPT
               !.tx = <<user_state @@ (me.u :> ButtonState(me.h))>>,
               !.pc = "set_commit"])
        /\ UNCHANGED <<env, tables, ghost, admin_broadcast_state, runs, last>>

\* set_user_state: INSERT OR REPLACE
SetState(t) ==
    LET me == tasks[t]
    IN  /\ me.pc = "set_user_state"
        /\ db_lock = 0
        /\ db_lock' = t
        /\ Goto(t, [me EXCEPT
               !.tx = <<(me.u :> ButtonState(me.h)) @@ user_state>>,
               !.pc = "set_commit"])
        /\ UNCHANGED <<env, tables, ghost, admin_broadcast_state, runs, last>>

\* the message handlers of the same user that have read the session state
\* and still run
Overtaken(t) ==
    {t2 \in Tasks \ {t} :
        /\ tasks[t2].u = tasks[t].u
        /\ tasks[t2].h \in {"text", "photo", "document"}
        /\ tasks[t2].pc \notin {"idle", "get_user_state"}}

\* set_user_state: COMMIT; the handler replies and returns.  The log of a
\* message handler that read the state before this selection records it.
SetCommit(t) ==
    LET me == tasks[t]
    IN  /\ me.pc = "set_commit"
        /\ user_state' = me.tx[1]
        /\ db_lock' = 0
        /\ tasks' = [t2 \in Tasks |->
                       IF t2 = t THEN Idle
                       ELSE IF t2 \in Overtaken(t)
                            THEN [tasks[t2] EXCEPT !.log = Append(@, "overtaken")]
                            ELSE tasks[t2]]
        /\ UNCHANGED <<env, user_requests, premium_users, user_memory, memory_seq,
                       users, ghost, admin_broadcast_state, runs, last>>

\* btn_clear_memory: clear_memory, one DELETE and its COMMIT
ClearMemory(t) ==
    LET me == tasks[t]
    IN  /\ me.pc = "clear_memory"
        /\ db_lock = 0
        /\ user_memory' = DeleteMemory(user_memory, me.u)
        /\ saved' = [saved EXCEPT ![me.u] = <<>>]
        /\ Return(t)
        /\ UNCHANGED <<env, user_requests, premium_users, memory_seq, user_state,
                       users, charged, base, retiered, admin_broadcast_state,
                       db_lock, runs, last>>

\* the dispatcher starts callbacks_handler for button `data` pressed by u
\* while other handlers run
DispatchCallback(t, data, u) ==
    /\ runs < MaxRuns
    /\ tasks[t] = Idle
    /\ \A t2 \in Tasks : t2 < t => tasks[t2] # Idle
    /\ runs' = runs + 1
    /\ Goto(t, [Idle EXCEPT !.h = data, !.u = u, !.pc = "callback_answer"])
    /\ UNCHANGED <<env, tables, ghost, admin_broadcast_state, db_lock, last>>

(***************************************************************************)
(* The commands and the other callbacks, each handled to its end while no  *)
(* other handler runs.                                                     *)
(***************************************************************************)
\* the dispatcher takes the next update while no handler runs
NextUpdate ==
    /\ runs < MaxRuns
    /\ \A t \in Tasks : tasks[t] = Idle
    /\ runs' = runs + 1

\* what `last` says about the update handled
Handled(op, u, data) ==
    last' = [op |-> op, user |-> u, ret |-> <<data>>, today |-> today,
             pre |-> Snapshot]

\* update_user_stats(u, "text") run without interleaving
CountText(u) ==
    /\ users' = WriteUserStats(users, u, SelectUser(users, u), "text", clock)
    /\ clock' = clock + 1

\* /start: clear_user_state, update_user_stats
cmd_start(u) ==
    /\ NextUpdate
    /\ user_state' = DeleteState(user_state, u)
    /\ CountText(u)
    /\ Handled("cmd_start", u, "")
    /\ UNCHANGED <<ADMIN_IDS, today, user_requests, premium_users, user_memory,
                   memory_seq, ghost, admin_broadcast_state, tasks, db_lock>>

\* /help: update_user_stats
cmd_help(u) ==
    /\ NextUpdate
    /\ CountText(u)
    /\ Handled("cmd_help", u, "")
    /\ UNCHANGED <<ADMIN_IDS, today, user_requests, premium_users, user_memory,
                   memory_seq, user_state, ghost, admin_broadcast_state, tasks,
                   db_lock>>

\* /admpanel and /backup_db: refused to a user outside ADMIN_IDS, else
\* update_user_stats (backup_db copies the file and changes no table)
cmd_admin_panel(u, command) ==
    /\ NextUpdate
    /\ IF u \in ADMIN_IDS THEN CountText(u) ELSE UNCHANGED <<users, clock>>
    /\ Handled(command, u, "")
    /\ UNCHANGED <<ADMIN_IDS, today, user_requests, premium_users, user_memory,
                   memory_seq, user_state, ghost, admin_broadcast_state, tasks,
                   db_lock>>

\* the buttons of callbacks_handler that start no flow
PlainButtons == {"btn_clear_memory", "btn_profile", "btn_back_main", "btn_cancel"}

\* a callbacks_handler registered for users in a flow only
callbacks_handler_InFlowOnly(u, data) ==
    /\ NextUpdate
    /\ SelectState(user_state, u) # <<>>
    /\ user_state[u] \in AwaitingStates
    /\ user_memory' = IF data = "btn_clear_memory"
                      THEN DeleteMemory(user_memory, u)
                      ELSE user_memory
    /\ saved' = IF data = "btn_clear_memory"
                THEN [saved EXCEPT ![u] = <<>>]
                ELSE saved
    /\ user_state' = IF data \in {"btn_back_main", "btn_cancel"}
                     THEN DeleteState(user_state, u)
                     ELSE user_state
    /\ Handled("callbacks_handler", u, data)
    /\ UNCHANGED <<env, user_requests, premium_users, memory_seq, users,
                   charged, base, retiered, admin_broadcast_state, tasks, db_lock>>

\* a callbacks_handler whose cancel buttons leave the session state
callbacks_handler_KeepingState(u, data) ==
    /\ NextUpdate
    /\ user_memory' = IF data = "btn_clear_memory"
                      THEN DeleteMemory(user_memory, u)
                      ELSE user_memory
    /\ saved' = IF data = "btn_clear_memory"
                THEN [saved EXCEPT ![u] = <<>>]
                ELSE saved
    /\ Handled("callbacks_handler", u, data)
    /\ UNCHANGED <<env, user_requests, premium_users, memory_seq, user_state,
                   users, charged, base, retiered, admin_broadcast_state, tasks,
                   db_lock>>

\* callbacks_handler for a button that starts no flow
callbacks_handler(u, data) ==
    /\ NextUpdate
    /\ user_memory' = IF data = "btn_clear_memory"
                      THEN DeleteMemory(user_memory, u)
                      ELSE user_memory
    /\ saved' = IF data = "btn_clear_memory"
                THEN [saved EXCEPT ![u] = <<>>]
                ELSE saved
    /\ user_state' = IF data \in {"btn_back_main", "btn_cancel"}
                     THEN DeleteState(user_state, u)
                     ELSE user_state
    /\ Handled("callbacks_handler", u, data)
    /\ UNCHANGED <<env, user_requests, premium_users, memory_seq, users,
                   charged, base, retiered, admin_broadcast_state, tasks, db_lock>>

\* the callback data admin_callbacks_handler knows, and the session state
\* four of them set
AdminData ==
    {"admin_back", "admin_back_main", "admin_stats", "admin_users",
     "admin_activity", "admin_user_memory", "admin_broadcast",
     "admin_confirm_broadcast", "admin_cancel_broadcast", "admin_backup_db",
     "admin_add_premium", "admin_remove_premium"}
AdminDataState(data) ==
    CASE data = "admin_user_memory" -> <<"admin_view_memory">>
      [] data \in {"admin_broadcast", "admin_add_premium",
                   "admin_remove_premium"} -> <<data>>
      [] OTHER -> <<>>

\* the effect of admin_callbacks_handler on the session states and on the
\* pending broadcasts, past its ADMIN_IDS test
AdminCallback(u, data) ==
    /\ user_state' =
          IF AdminDataState(data) # <<>>
          THEN (u :> AdminDataState(data)[1]) @@ user_state
          ELSE IF data \in {"admin_back_main", "admin_cancel_broadcast"}
               THEN DeleteState(user_state, u)
               ELSE user_state
    /\ admin_broadcast_state' =
          IF data \in {"admin_confirm_broadcast", "admin_cancel_broadcast"}
          THEN [a \in DOMAIN admin_broadcast_state \ {u} |-> admin_broadcast_state[a]]
          ELSE admin_broadcast_state

\* admin_callbacks_handler without its ADMIN_IDS test
admin_callbacks_handler_Unguarded(u, data) ==
    /\ NextUpdate
    /\ AdminCallback(u, data)
    /\ Handled("admin_callbacks_handler", u, data)
    /\ UNCHANGED <<env, user_requests, premium_users, user_memory, memory_seq,
                   users, ghost, tasks, db_lock>>

\* admin_callbacks_handler: refused to a user outside ADMIN_IDS
admin_callbacks_handler(u, data) ==
    /\ NextUpdate
    /\ IF u \in ADMIN_IDS
       THEN AdminCallback(u, data)
       ELSE UNCHANGED <<user_state, admin_broadcast_state>>
    /\ Handled("admin_callbacks_handler", u, data)
    /\ UNCHANGED <<env, user_requests, premium_users, user_memory, memory_seq,
                   users, ghost, tasks, db_lock>>

(***************************************************************************)
(* Storage errors: a statement of a store function raises (the database    *)
(* is locked for longer than the timeout, the disk is full, ...).  The     *)
(* connection is closed and what its transaction wrote is rolled back.     *)
(***************************************************************************)
\* the awaits of the store functions
StoragePcs ==
    {"get_user_state", "stats_select", "stats_write", "stats_commit",
     "left_select", "left_premium", "llm_memory",
     "request_select", "request_write", "request_commit",
     "save_now", "save_insert", "save_evict", "save_commit",
     "clear_user_state", "clear_commit", "set_user_state", "set_commit",
     "view_memory", "premium_write", "premium_commit", "get_all_users_stats"}

\* the awaits inside the try blocks of the handlers, whose except branch
\* replies and calls clear_user_state
CaughtPcs == {"llm_memory", "request_select", "request_write", "request_commit"}

\* what the log says when the store function at pc raised
ErrorEvent(pc) ==
    CASE pc = "get_user_state" -> "get_user_state_error"
      [] pc \in {"stats_select", "stats_write", "stats_commit"} ->
            "update_user_stats_error"
      [] pc \in {"left_select", "left_premium"} -> "get_requests_left_error"
      [] pc = "llm_memory" -> "get_memory_error"
      [] pc \in {"request_select", "request_write", "request_commit"} ->
            "update_request_count_error"
      [] pc \in {"save_now", "save_insert", "save_evict", "save_commit"} ->
            "save_memory_error"
      [] pc \in {"clear_user_state", "clear_commit"} -> "clear_user_state_error"
      [] pc \in {"set_user_state", "set_commit"} -> "set_user_state_error"
      [] OTHER -> "admin_flow_error"

ErrorEvents ==
    {ErrorEvent(pc) : pc \in StoragePcs}

\* a handler that takes a get_requests_left that raised for an allowance
StorageError_FailOpen(t) ==
    LET me == tasks[t]
        raising == [me EXCEPT !.row = <<>>, !.day = 0, !.ts = 0, !.mem = <<>>,
                              !.tx = <<>>,
                              !.log = Append(@, ErrorEvent(me.pc))]
    IN  /\ me.pc \in StoragePcs
        /\ db_lock' = IF db_lock = t THEN 0 ELSE db_lock
        /\ IF me.pc \in {"left_select", "left_premium"}
           THEN \E r \in AfterQuota(raising) : Goto(t, r)
           ELSE Goto(t, [raising EXCEPT !.pc = IF me.pc \in CaughtPcs
                                               THEN "clear_user_state"
                                               ELSE "raised"])
        /\ UNCHANGED <<env, tables, ghost, admin_broadcast_state, runs, last>>

\* the store function task t is in raises: inside a try block the handler
\* goes on with its except branch, elsewhere the exception leaves the handler
StorageError(t) ==
    LET me == tasks[t]
        raising == [me EXCEPT !.row = <<>>, !.day = 0, !.ts = 0, !.mem = <<>>,
                              !.tx = <<>>,
                              !.log = Append(@, ErrorEvent(me.pc))]
    IN  /\ me.pc \in StoragePcs
        /\ db_lock' = IF db_lock = t THEN 0 ELSE db_lock
        /\ Goto(t, [raising EXCEPT !.pc = IF me.pc \in CaughtPcs
                                          THEN "clear_user_state"
                                          ELSE "raised"])
        /\ UNCHANGED <<env, tables, ghost, admin_broadcast_state, runs, last>>

\* the exception reaches the dispatcher, which logs it: the handler is over
Raised(t) ==
    LET me == tasks[t]
    IN  /\ me.pc = "raised"
        /\ Return(t)
        /\ UNCHANGED onlyTask

(***************************************************************************)
(* The calendar.                                                           *)
(***************************************************************************)
Midnight ==
    /\ today < MaxDay
    /\ today' = today + 1
    /\ charged' = [u \in Users |-> 0]
    /\ base' = [u \in Users |-> 0]
    /\ retiered' = {}
    /\ UNCHANGED <<ADMIN_IDS, clock, tables, saved, proc, last>>

(***************************************************************************)
(* The store after init_db on a new file, migrate_from_dicts of four empty *)
(* dictionaries having added nothing.                                      *)
(***************************************************************************)
InitStore ==
    /\ ADMIN_IDS \in SUBSET AdminCandidates
    /\ today = 1
    /\ clock = 1
    /\ user_requests = <<>>
    /\ premium_users = {}
    /\ user_memory = {}
    /\ memory_seq = 0
    /\ user_state = <<>>
    /\ users = <<>>
    /\ charged = [u \in Users |-> 0]
    /\ saved = [u \in Users |-> <<>>]
    /\ base = [u \in Users |-> 0]
    /\ retiered = {}
    /\ admin_broadcast_state = <<>>
    /\ tasks = [t \in Tasks |-> Idle]
    /\ db_lock = 0
    /\ runs = 0
    /\ last = NoCall

(***************************************************************************)
(* SpecQuota: the quota and tier functions called one after the other.     *)
(* User 1 is driven past both ceilings, every other user records at most   *)
(* MaxLight requests a day.                                                *)
(***************************************************************************)
CountCap(u) == IF u = 1 THEN PREMIUM_REQUEST_LIMIT + MaxOver ELSE MaxLight

QuotaNext ==
    \/ \E u \in Users : charged[u] < CountCap(u) /\ update_request_count(u)
    \/ \E u \in Users : get_requests_left(u)
    \/ \E u \in Users : add_premium_user(u)
    \/ \E u \in Users : remove_premium_user(u)
    \/ Midnight

SpecQuota == InitStore /\ [][QuotaNext]_vars

(***************************************************************************)
(* SpecDatabase: the quota functions of src/database.py called one after   *)
(* the other.  They know neither the admin set nor the premium table.      *)
(***************************************************************************)
\* database.py: REQUEST_LIMIT = 50 inside get_requests_left
database_RequestsLeft(req, day) ==
    IF req = <<>> \/ req[1].date # day
    THEN REQUEST_LIMIT
    ELSE Max(0, REQUEST_LIMIT - req[1].count)

\* database.py: the record update_request_count leaves for u on `day`
database_WriteRequest(table, u, day) ==
    WriteRequest(table, u, SelectRequest(table, u), day)

\* database.py: update_request_count
database_update_request_count(u) ==
    /\ user_requests' =
          WriteRequest(user_requests, u, SelectRequest(user_requests, u), today)
    /\ last' = [op |-> "update_request_count", user |-> u, ret |-> <<>>,
                today |-> today, pre |-> Snapshot]
    /\ charged' = [charged EXCEPT ![u] = @ + 1]
    /\ UNCHANGED <<env, premium_users, user_memory, memory_seq, user_state,
                   users, saved, base, retiered, proc>>

\* database.py: get_requests_left
database_get_requests_left(u) ==
    /\ last' = [op |-> "get_requests_left", user |-> u,
                ret |-> <<database_RequestsLeft(SelectRequest(user_requests, u),
                                                today)>>,
                today |-> today, pre |-> Snapshot]
    /\ UNCHANGED <<env, tables, ghost, proc>>

DatabaseNext ==
    \/ \E u \in Users :
          charged[u] < REQUEST_LIMIT + MaxOver /\ database_update_request_count(u)
    \/ \E u \in Users : database_get_requests_left(u)
    \/ Midnight

SpecDatabase == InitStore /\ [][DatabaseNext]_vars

(***************************************************************************)
(* SpecMemory: the memory functions called one after the other.  User 1    *)
(* is driven past the cap, every other user holds at most MaxLight rows.   *)
(***************************************************************************)
MemoryNext ==
    \/ \E u \in Users :
          /\ memory_seq < MaxInserts
          /\ u = 1 \/ Cardinality(RowsOf(user_memory, u)) < MaxLight
          /\ save_memory(u)
    \/ \E u \in Users : get_memory(u)
    \/ \E u \in Users : clear_memory(u)
    \/ \E u \in Users : call_openai_with_prompt(u)
    \/ \E u \in Users : build_memory_text(u)

SpecMemory == InitStore /\ [][MemoryNext]_vars

(***************************************************************************)
(* Spec: the handlers of MaxTasks updates running concurrently on a        *)
(* store that earlier runs of the bot left in bot.db (init_db creates      *)
(* tables only if they do not exist).                                      *)
(***************************************************************************)
\* the tables after user u was charged n times on day d, each time for a
\* text answered and saved, and then chose session state st
StoreAfter(u, n, d, st) ==
    [user_requests |-> IF n = 0 THEN <<>> ELSE (u :> [date |-> d, count |-> n]),
     user_memory |-> {[id |-> i, user_id |-> u, timestamp |-> 2 * i] :
                         i \in Max(1, n - MEMORY_LIMIT + 1)..n},
     memory_seq |-> n,
     user_state |-> IF st = "" THEN <<>> ELSE (u :> st),
     users |-> IF n = 0
               THEN <<>>
               ELSE (u :> [first_seen |-> 1, last_seen |-> 2 * n - 1,
                           message_count |-> n, photo_count |-> 0,
                           document_count |-> 0]),
     clock |-> 2 * n + 1]

\* the stores the runs start from: a new file; user 1 one request below
\* the standard ceiling; user 1 with the ceiling used up on an earlier day
Stores ==
    {StoreAfter(1, 0, 1, "")}
    \cup {StoreAfter(1, REQUEST_LIMIT - 1, 1, st) : st \in AwaitingStates}
    \cup {StoreAfter(1, REQUEST_LIMIT, 0, st) : st \in AwaitingStates}

\* user 1 in the premium group, one request below the premium ceiling
PremiumStores ==
    {StoreAfter(1, PREMIUM_REQUEST_LIMIT - 1, 1, st) : st \in AwaitingStates}

Init ==
    /\ ADMIN_IDS \in SUBSET AdminCandidates
    /\ today = 1
    /\ \E s \in Stores \cup (IF ADMIN_IDS = {} THEN {} ELSE PremiumStores) :
          /\ clock = s.clock
          /\ user_requests = s.user_requests
          /\ premium_users = IF s \in PremiumStores THEN {1} ELSE {}
          /\ user_memory = s.user_memory
          /\ memory_seq = s.memory_seq
          /\ users = s.users
          /\ \E flow \in {""} \cup AdminStates :
                /\ flow # "" => ADMIN_IDS # {}
                /\ user_state = IF flow = ""
                                THEN s.user_state
                                ELSE [a \in ADMIN_IDS |-> flow] @@ s.user_state
    /\ charged = [u \in Users |-> 0]
    /\ saved = [u \in Users |-> <<>>]
    /\ base = [u \in Users |->
                 IF u \in DOMAIN user_requests /\ user_requests[u].date = today
                 THEN user_requests[u].count
                 ELSE 0]
    /\ retiered = {}
    /\ admin_broadcast_state = <<>>
    /\ tasks = [t \in Tasks |-> Idle]
    /\ db_lock = 0
    /\ runs = 0
    /\ last = NoCall

Next ==
    \/ \E t \in Tasks, u \in Users : Dispatch(t, "text", u)
    \/ \E t \in Tasks, u \in Users : Dispatch(t, "photo", u)
    \/ \E t \in Tasks, u \in Users : Dispatch(t, "document", u)
    \/ \E t \in Tasks : HandleTextState(t)
    \/ \E t \in Tasks : HandlePhotoState(t)
    \/ \E t \in Tasks : HandleDocumentState(t)
    \/ \E t \in Tasks : StatsSelect(t)
    \/ \E t \in Tasks : StatsWrite(t)
    \/ \E t \in Tasks : StatsCommit(t)
    \/ \E t \in Tasks : LeftSelect(t)
    \/ \E t \in Tasks : LeftPremium(t)
    \/ \E t \in Tasks : Download(t)
    \/ \E t \in Tasks : Ocr(t)
    \/ \E t \in Tasks : LlmMemory(t)
    \/ \E t \in Tasks : LlmCall(t)
    \/ \E t \in Tasks : RequestSelect(t)
    \/ \E t \in Tasks : RequestWrite(t)
    \/ \E t \in Tasks : RequestCommit(t)
    \/ \E t \in Tasks : SaveNow(t)
    \/ \E t \in Tasks : SaveInsert(t)
    \/ \E t \in Tasks : SaveEvict(t)
    \/ \E t \in Tasks : SaveCommit(t)
    \/ \E t \in Tasks : ClearState(t)
    \/ \E t \in Tasks : ClearCommit(t)
    \/ \E t \in Tasks : GetAllUsersStats(t)
    \/ \E t \in Tasks : ViewMemory(t)
    \/ \E t \in Tasks : ViewReply(t)
    \/ \E t \in Tasks : PremiumWrite(t)
    \/ \E t \in Tasks : PremiumCommit(t)

Spec == Init /\ [][Next]_vars

(***************************************************************************)
(* SpecInterleaved: the message handlers and the buttons of the main menu  *)
(* (the flow buttons, btn_clear_memory, btn_cancel), each update in its    *)
(* own task, the tasks interleaved at their awaits.                        *)
(***************************************************************************)
MenuButtons == Buttons \cup {"btn_clear_memory", "btn_cancel"}

InterleavedNext ==
    \/ Next
    \/ \E t \in Tasks, u \in Users, data \in MenuButtons :
          DispatchCallback(t, data, u)
    \/ \E t \in Tasks : CallbackAnswer(t)
    \/ \E t \in Tasks : SetState(t)
    \/ \E t \in Tasks : SetCommit(t)
    \/ \E t \in Tasks : ClearMemory(t)

SpecInterleaved == Init /\ [][InterleavedNext]_vars

(***************************************************************************)
(* admin_confirm_broadcast and admin_cancel_broadcast, await by await.     *)
(***************************************************************************)
BroadcastData == {"admin_confirm_broadcast", "admin_cancel_broadcast"}

\* admin_broadcast_state.get(u)
Pending(u) ==
    IF u \in DOMAIN admin_broadcast_state THEN <<admin_broadcast_state[u]>> ELSE <<>>

\* admin_broadcast_state.pop(u, None)
Pop(u) == [a \in DOMAIN admin_broadcast_state \ {u} |-> admin_broadcast_state[a]]

\* the dispatcher starts admin_callbacks_handler for `data` pressed by u
DispatchAdmin(t, data, u) ==
    /\ runs < MaxClicks
    /\ tasks[t] = Idle
    /\ \A t2 \in Tasks : t2 < t => tasks[t2] # Idle
    /\ runs' = runs + 1
    /\ Goto(t, [Idle EXCEPT !.h = data, !.u = u, !.pc = "admin_callback"])
    /\ UNCHANGED <<env, tables, ghost, admin_broadcast_state, db_lock, last>>

\* the ADMIN_IDS test and callback.answer()
AdminAnswer(t) ==
    LET me == tasks[t]
    IN  /\ me.pc = "admin_callback"
        /\ IF me.u \in ADMIN_IDS
           THEN Goto(t, [me EXCEPT !.pc = me.h])
           ELSE Return(t)
        /\ UNCHANGED onlyTask

\* admin_confirm_broadcast: the pending text is read and edit_text awaited;
\* with no text pending the handler says so and returns
ConfirmBroadcast(t) ==
    LET me == tasks[t]
    IN  /\ me.pc = "admin_confirm_broadcast"
        /\ IF Pending(me.u) # <<>>
           THEN Goto(t, [me EXCEPT !.arg = Pending(me.u), !.pc = "edit_text"])
           ELSE Return(t)
        /\ UNCHANGED onlyTask

\* callback.message.edit_text: Telegram accepts the edit, or refuses it and
\* the handler ends on the exception
BroadcastEdit(t) ==
    LET me == tasks[t]
    IN  /\ me.pc = "edit_text"
        /\ \/ Goto(t, [me EXCEPT !.pc = "send_broadcast_message"])
           \/ Return(t)
        /\ UNCHANGED onlyTask

\* the other confirmations of the same admin that hold the text of task t
\* and have not begun to send it
SameText(t) ==
    {t2 \in Tasks \ {t} :
        /\ tasks[t2].u = tasks[t].u
        /\ tasks[t2].pc = "edit_text"
        /\ tasks[t2].arg = tasks[t].arg}

\* send_broadcast_message has sent the text to every user; the pending text
\* is popped and the result shown.  The log of another confirmation that
\* holds the same text records that it has been broadcast.
SendBroadcast(t) ==
    LET me == tasks[t]
    IN  /\ me.pc = "send_broadcast_message"
        /\ admin_broadcast_state' = Pop(me.u)
        /\ tasks' = [t2 \in Tasks |->
                       IF t2 = t THEN Idle
                       ELSE IF t2 \in SameText(t)
                            THEN [tasks[t2] EXCEPT !.log = Append(@, "broadcast")]
                            ELSE tasks[t2]]
        /\ UNCHANGED <<env, tables, ghost, db_lock, runs, last>>

\* admin_cancel_broadcast: the pending text is popped, clear_user_state
\* follows
CancelBroadcast(t) ==
    LET me == tasks[t]
    IN  /\ me.pc = "admin_cancel_broadcast"
        /\ admin_broadcast_state' = Pop(me.u)
        /\ Goto(t, [me EXCEPT !.pc = "clear_user_state"])
        /\ UNCHANGED <<env, tables, ghost, db_lock, runs, last>>

(***************************************************************************)
(* SpecBroadcast: texts and the two broadcast buttons, each update in its  *)
(* own task, the tasks interleaved at their awaits.                        *)
(***************************************************************************)
BroadcastNext ==
    \/ \E t \in Tasks, u \in Users : Dispatch(t, "text", u)
    \/ \E t \in Tasks, u \in Users, data \in BroadcastData : DispatchAdmin(t, data, u)
    \/ \E t \in Tasks : HandleTextState(t)
    \/ \E t \in Tasks : StatsSelect(t)
    \/ \E t \in Tasks : StatsWrite(t)
    \/ \E t \in Tasks : StatsCommit(t)
    \/ \E t \in Tasks : LeftSelect(t)
    \/ \E t \in Tasks : LeftPremium(t)
    \/ \E t \in Tasks : LlmMemory(t)
    \/ \E t \in Tasks : LlmCall(t)
    \/ \E t \in Tasks : RequestSelect(t)
    \/ \E t \in Tasks : RequestWrite(t)
    \/ \E t \in Tasks : RequestCommit(t)
    \/ \E t \in Tasks : SaveNow(t)
    \/ \E t \in Tasks : SaveInsert(t)
    \/ \E t \in Tasks : SaveEvict(t)
    \/ \E t \in Tasks : SaveCommit(t)
    \/ \E t \in Tasks : ClearState(t)
    \/ \E t \in Tasks : ClearCommit(t)
    \/ \E t \in Tasks : GetAllUsersStats(t)
    \/ \E t \in Tasks : ViewMemory(t)
    \/ \E t \in Tasks : ViewReply(t)
    \/ \E t \in Tasks : PremiumWrite(t)
    \/ \E t \in Tasks : PremiumCommit(t)
    \/ \E t \in Tasks : AdminAnswer(t)
    \/ \E t \in Tasks : ConfirmBroadcast(t)
    \/ \E t \in Tasks : BroadcastEdit(t)
    \/ \E t \in Tasks : SendBroadcast(t)
    \/ \E t \in Tasks : CancelBroadcast(t)

SpecBroadcast == Init /\ [][BroadcastNext]_vars

(***************************************************************************)
(* SpecSolo: the same handlers, each update handled to its end before the  *)
(* next one is dispatched; `last` keeps the tables as they were when the   *)
(* handler started.                                                        *)
(***************************************************************************)
\* a step of the handler that task t runs
Step(t) ==
    \/ HandleTextState(t)
    \/ HandlePhotoState(t)
    \/ HandleDocumentState(t)
    \/ StatsSelect(t)
    \/ StatsWrite(t)
    \/ StatsCommit(t)
    \/ LeftSelect(t)
    \/ LeftPremium(t)
    \/ Download(t)
    \/ Ocr(t)
    \/ LlmMemory(t)
    \/ LlmCall(t)
    \/ RequestSelect(t)
    \/ RequestWrite(t)
    \/ RequestCommit(t)
    \/ SaveNow(t)
    \/ SaveInsert(t)
    \/ SaveEvict(t)
    \/ SaveCommit(t)
    \/ ClearState(t)
    \/ ClearCommit(t)
    \/ GetAllUsersStats(t)
    \/ ViewMemory(t)
    \/ ViewReply(t)
    \/ PremiumWrite(t)
    \/ PremiumCommit(t)

\* the dispatcher starts handler h for an update of user u while no other
\* handler runs
SoloDispatch(t, h, u) ==
    /\ runs < MaxRuns
    /\ \A t2 \in Tasks : tasks[t2] = Idle
    /\ t = 1
    /\ runs' = runs + 1
    /\ Goto(t, [Idle EXCEPT !.h = h, !.u = u, !.pc = "get_user_state"])
    /\ last' = [op |-> h, user |-> u, ret |-> <<>>, today |-> today,
                pre |-> Snapshot]
    /\ UNCHANGED <<env, tables, ghost, admin_broadcast_state, db_lock>>

SoloNext ==
    \/ \E t \in Tasks, u \in Users : SoloDispatch(t, "text", u)
    \/ \E t \in Tasks, u \in Users : SoloDispatch(t, "photo", u)
    \/ \E t \in Tasks, u \in Users : SoloDispatch(t, "document", u)
    \/ \E t \in Tasks : Step(t)

SpecSolo == Init /\ [][SoloNext]_vars

(***************************************************************************)
(* SpecFaulty: the handlers and the flow buttons, one update at a time, on *)
(* a store whose statements may raise.                                     *)
(***************************************************************************)
\* the dispatcher starts callbacks_handler for button `data` pressed by u
SoloCallback(t, data, u) ==
    /\ runs < MaxRuns
    /\ \A t2 \in Tasks : tasks[t2] = Idle
    /\ t = 1
    /\ runs' = runs + 1
    /\ Goto(t, [Idle EXCEPT !.h = data, !.u = u, !.pc = "callback_answer"])
    /\ last' = [op |-> data, user |-> u, ret |-> <<>>, today |-> today,
                pre |-> Snapshot]
    /\ UNCHANGED <<env, tables, ghost, admin_broadcast_state, db_lock>>

FaultyNext ==
    \/ \E t \in Tasks, u \in Users : SoloDispatch(t, "text", u)
    \/ \E t \in Tasks, u \in Users : SoloDispatch(t, "photo", u)
    \/ \E t \in Tasks, u \in Users : SoloDispatch(t, "document", u)
    \/ \E t \in Tasks, u \in Users, data \in Buttons : SoloCallback(t, data, u)
    \/ \E t \in Tasks : Step(t)
    \/ \E t \in Tasks : CallbackAnswer(t)
    \/ \E t \in Tasks : SetState(t)
    \/ \E t \in Tasks : SetCommit(t)
    \/ \E t \in Tasks : StorageError(t)
    \/ \E t \in Tasks : Raised(t)

SpecFaulty == Init /\ [][FaultyNext]_vars

(***************************************************************************)
(* SpecSession: every update the bot handles (commands, callbacks, texts,  *)
(* photos, documents), from admins and from other users, one at a time.    *)
(***************************************************************************)
SessionNext ==
    \/ \E t \in Tasks, u \in Users : SoloDispatch(t, "text", u)
    \/ \E t \in Tasks, u \in Users : SoloDispatch(t, "photo", u)
    \/ \E t \in Tasks, u \in Users : SoloDispatch(t, "document", u)
    \/ \E t \in Tasks, u \in Users, data \in Buttons : SoloCallback(t, data, u)
    \/ \E t \in Tasks : Step(t)
    \/ \E t \in Tasks : CallbackAnswer(t)
    \/ \E t \in Tasks : SetState(t)
    \/ \E t \in Tasks : SetCommit(t)
    \/ \E u \in Users : cmd_start(u)
    \/ \E u \in Users : cmd_help(u)
    \/ \E u \in Users, command \in {"cmd_admin_panel", "cmd_backup_db"} :
          cmd_admin_panel(u, command)
    \/ \E u \in Users, data \in PlainButtons : callbacks_handler(u, data)
    \/ \E u \in Users, data \in AdminData : admin_callbacks_handler(u, data)

SpecSession == Init /\ [][SessionNext]_vars

(***************************************************************************)
(* What the claims speak of, stated without the code's operators.          *)
(***************************************************************************)
\* the tier's ceiling of user u in the tables t
Ceiling(t, u) ==
    IF u \in t.premium_users THEN PREMIUM_REQUEST_LIMIT ELSE REQUEST_LIMIT

\* the count effective on day d: the stored count if the stored date is d,
\* 0 if there is no record or the stored date is another day
EffectiveCount(t, u, d) ==
    IF u \in DOMAIN t.user_requests /\ t.user_requests[u].date = d
    THEN t.user_requests[u].count
    ELSE 0

\* the remaining allowance the specification defines
Allowance(t, u, d) == Max(0, Ceiling(t, u) - EffectiveCount(t, u, d))

\* the last call was `op`, for a user outside the admin set
LastIs(op) == last.op = op /\ last.user \notin ADMIN_IDS

(***************************************************************************)
(* C3: for a non-admin user and any store state get_requests_left returns  *)
(* max(0, ceiling - count): ceiling 500 for a premium user and 50          *)
(* otherwise, count the stored count if the stored date is today, else 0.  *)
(***************************************************************************)
C3_RequestsLeftValue ==
    LastIs("get_requests_left") =>
        last.ret = <<Allowance(last.pre, last.user, last.today)>>

\* a premium user past the standard ceiling is told the premium remainder
C3_Witness ==
    /\ LastIs("get_requests_left")
    /\ last.user \in last.pre.premium_users
    /\ EffectiveCount(last.pre, last.user, last.today) > REQUEST_LIMIT
    /\ last.ret = <<PREMIUM_REQUEST_LIMIT
                     - EffectiveCount(last.pre, last.user, last.today)>>

(***************************************************************************)
(* C4: within one day and with the tier fixed, each update_request_count   *)
(* lowers get_requests_left by exactly 1 while it is above 0, leaves it 0  *)
(* once it is 0, never makes it negative; counting from no usage, it is 0  *)
(* after exactly ceiling calls and not before.                             *)
(***************************************************************************)
\* get_requests_left(u) as the code computes it on the tables t on day d
LeftOn(t, u, d) ==
    RequestsLeft(SelectRequest(t.user_requests, u),
                 is_premium_user(t.premium_users, u), d)

C4_DecreasesByOne ==
    /\ LastIs("update_request_count") /\ today = last.today =>
          LET before == LeftOn(last.pre, last.user, today)
              after == LeftOn(Snapshot, last.user, today)
          IN  /\ after >= 0
              /\ before > 0 => after = before - 1
              /\ before = 0 => after = 0
    /\ \A u \in Users \ ADMIN_IDS :
          /\ charged[u] < Ceiling(Snapshot, u) => LeftOn(Snapshot, u, today) > 0
          /\ charged[u] >= Ceiling(Snapshot, u) => LeftOn(Snapshot, u, today) = 0

\* the 500th call of a premium user brings the allowance from 1 to 0
C4_Witness ==
    /\ LastIs("update_request_count") /\ today = last.today
    /\ last.user \in premium_users
    /\ charged[last.user] = PREMIUM_REQUEST_LIMIT
    /\ LeftOn(last.pre, last.user, today) = 1
    /\ LeftOn(Snapshot, last.user, today) = 0

(***************************************************************************)
(* C5: usage recorded on an earlier day does not count today: with a       *)
(* record of another day stored, whatever its count, get_requests_left     *)
(* returns the full ceiling of the user's tier.                            *)
(***************************************************************************)
C5_ResetOnNewDay ==
    /\ LastIs("get_requests_left")
    /\ last.user \in DOMAIN last.pre.user_requests
    /\ last.pre.user_requests[last.user].date # last.today
    => last.ret = <<Ceiling(last.pre, last.user)>>

\* a standard user who used up the ceiling yesterday has 50 left today
C5_Witness ==
    /\ LastIs("get_requests_left")
    /\ last.user \in DOMAIN last.pre.user_requests
    /\ last.pre.user_requests[last.user].date < last.today
    /\ last.pre.user_requests[last.user].count >= REQUEST_LIMIT
    /\ last.ret = <<REQUEST_LIMIT>>

(***************************************************************************)
(* C6: update_request_count sets the record to (today, 1) when there is no *)
(* record or the stored date is another day, otherwise adds exactly 1 to   *)
(* the count and keeps the date; the ceiling does not stop the count.      *)
(***************************************************************************)
C6_UpdateSetsOrIncrements ==
    LastIs("update_request_count") =>
        LET u == last.user
            old == last.pre.user_requests
        IN  /\ u \in DOMAIN user_requests
            /\ IF u \notin DOMAIN old \/ old[u].date # last.today
               THEN user_requests[u] = [date |-> last.today, count |-> 1]
               ELSE user_requests[u] =
                       [date |-> old[u].date, count |-> old[u].count + 1]

\* a call past the standard ceiling still adds 1
C6_Witness ==
    /\ LastIs("update_request_count")
    /\ last.user \notin premium_users
    /\ last.user \in DOMAIN last.pre.user_requests
    /\ last.pre.user_requests[last.user] =
          [date |-> last.today, count |-> REQUEST_LIMIT]
    /\ user_requests[last.user].count = REQUEST_LIMIT + 1

(***************************************************************************)
(* C7: get_requests_left changes no table; a record of an earlier day      *)
(* stays stored as it is.                                                  *)
(***************************************************************************)
C7_RequestsLeftReadOnly ==
    last.op = "get_requests_left" => Snapshot = last.pre

\* the stale record is still there after the call
C7_Witness ==
    /\ LastIs("get_requests_left")
    /\ last.user \in DOMAIN user_requests
    /\ user_requests[last.user].date < last.today
    /\ Snapshot = last.pre

(***************************************************************************)
(* C9: after n sequential save_memory calls from an empty memory           *)
(* get_memory returns the min(n, MEMORY_LIMIT) most recently inserted      *)
(* entries; after MEMORY_LIMIT + 1 calls these are exactly MEMORY_LIMIT    *)
(* entries and the first one inserted is gone.                             *)
(***************************************************************************)
Min(a, b) == IF a <= b THEN a ELSE b

\* the k most recent elements of s, most recent first
MostRecent(s, k) == [i \in 1..Min(k, Len(s)) |-> s[Len(s) - i + 1]]

C9_BoundedMemory ==
    last.op = "get_memory" =>
        last.ret = MostRecent(saved[last.user], MEMORY_LIMIT)

\* the eleventh insert evicted the first
C9_Witness ==
    /\ last.op = "get_memory"
    /\ Len(saved[last.user]) = MEMORY_LIMIT + 1
    /\ Len(last.ret) = MEMORY_LIMIT
    /\ \A i \in 1..Len(last.ret) : last.ret[i] # saved[last.user][1]
    /\ last.ret[1] = saved[last.user][MEMORY_LIMIT + 1]

C8_MainWitness ==
    /\ last.op = "update_request_count"
    /\ last.user \in ADMIN_IDS
    /\ charged[last.user] > 0
    /\ last.user \notin DOMAIN user_requests

(***************************************************************************)
(* C1: no update of the request count is lost: once no                     *)
(* update_request_count(u) call of a non-admin user u is in flight, the    *)
(* stored record is (today, c + N), c the count effective today before the *)
(* calls and N the number of calls made, also when the calls are the first *)
(* of the day and each read "no record for today" before any wrote.        *)
(***************************************************************************)
\* an update_request_count(u) call is past its SELECT and before its COMMIT's end
Updating(u) ==
    \E t \in Tasks :
        tasks[t].u = u /\ tasks[t].pc \in {"request_write", "request_commit"}

C1_NoLostUpdates ==
    \A u \in Users \ ADMIN_IDS :
        charged[u] > 0 /\ ~Updating(u) =>
            /\ u \in DOMAIN user_requests
            /\ user_requests[u] = [date |-> today, count |-> base[u] + charged[u]]

(***************************************************************************)
(* C2: for a non-admin user whose tier did not change during the day, the  *)
(* count recorded for today never exceeds the ceiling of the tier (50      *)
(* standard, 500 premium), however the user's text, photo and document     *)
(* handlers interleave.                                                    *)
(***************************************************************************)
C2_DailyCeiling ==
    \A u \in Users \ (ADMIN_IDS \cup retiered) :
        EffectiveCount(Snapshot, u, today) <= Ceiling(Snapshot, u)

(***************************************************************************)
(* C10: in every reachable state, also while save_memory calls for the     *)
(* same user run concurrently, the store holds at most MEMORY_LIMIT        *)
(* entries of a user and no get_memory has returned more than MEMORY_LIMIT *)
(* entries.                                                                *)
(***************************************************************************)
C10_MemoryCap ==
    /\ \A u \in Users : Cardinality(RowsOf(user_memory, u)) <= MEMORY_LIMIT
    /\ \A t \in Tasks : Len(tasks[t].mem) <= MEMORY_LIMIT

\* a get_memory of user 1 has returned MEMORY_LIMIT entries for the prompt
\* while a save_memory of user 1 has inserted the entry MEMORY_LIMIT + 1 and
\* not yet evicted and committed
C10_Witness ==
    \E t1, t2 \in Tasks :
        /\ tasks[t1].u = 1 /\ tasks[t1].pc = "save_evict"
        /\ Cardinality(RowsOf(tasks[t1].tx[1], 1)) = MEMORY_LIMIT + 1
        /\ tasks[t2].u = 1 /\ tasks[t2].pc = "llm_call"
        /\ Len(tasks[t2].mem) = MEMORY_LIMIT

(***************************************************************************)
(* C11: the prior exchanges call_openai_with_prompt puts into the prompt   *)
(* are exactly the min(3, n) most recent of the user's n retained          *)
(* entries; with more than 3 retained none of the older ones is included.  *)
(***************************************************************************)
\* the exchanges of a message list, in the order they appear in it
ExchangesOf(msgs) ==
    LET answers == SelectSeq(msgs, LAMBDA m : m.role = "assistant")
    IN  [i \in 1..Len(answers) |-> answers[i].id]

\* the elements of a sequence
Range(s) == {s[i] : i \in 1..Len(s)}

C11_MostRecentInPrompt ==
    last.op = "call_openai_with_prompt" =>
        LET prior == ExchangesOf(last.ret)
        IN  /\ Len(prior) = Min(ContextSize, Len(SelectMemory(user_memory, last.user)))
            /\ Range(prior) = Range(MostRecent(saved[last.user], ContextSize))

(***************************************************************************)
(* C12: the prior exchanges appear in the prompt in chronological order,   *)
(* the one saved earlier first, and the new user prompt is the last        *)
(* message.                                                                *)
(***************************************************************************)
C12_ChronologicalPrompt ==
    last.op = "call_openai_with_prompt" =>
        LET prior == ExchangesOf(last.ret)
        IN  /\ \A i, j \in 1..Len(prior) : i < j => prior[i] < prior[j]
            /\ last.ret[Len(last.ret)] = [role |-> "user", id |-> 0]

(***************************************************************************)
(* C13: clear_memory is complete and idempotent: after clear_memory(u)     *)
(* get_memory(u) is empty and the entries of the other users are as they   *)
(* were; a clear_memory(u) that finds no entry of u (a second one right    *)
(* after the first, or one for a user who never had entries) changes       *)
(* nothing in the store; clear_memory can always be called.                *)
(***************************************************************************)
C13_ClearMemoryIdempotent ==
    /\ \A u \in Users : ENABLED clear_memory(u)
    /\ last.op = "clear_memory" =>
          /\ SelectMemory(user_memory, last.user) = <<>>
          /\ user_memory = last.pre.user_memory \ RowsOf(last.pre.user_memory, last.user)
          /\ RowsOf(last.pre.user_memory, last.user) = {} => Snapshot = last.pre

\* entries had been saved and all of them cleared; the last clear_memory
\* found no entry and changed nothing
C13_Witness ==
    /\ last.op = "clear_memory"
    /\ memory_seq > 0
    /\ last.pre.user_memory = {}
    /\ Snapshot = last.pre
    /\ SelectMemory(user_memory, last.user) = <<>>

(***************************************************************************)
(* C14: add_premium_user and remove_premium_user are idempotent set        *)
(* operations: after add_premium_user(u) the set is the old one with u and *)
(* is_premium_user(u) is true, and for a u already in it nothing in the    *)
(* store changes; after remove_premium_user(u) the set is the old one      *)
(* without u and is_premium_user(u) is false, and for a u not in it        *)
(* nothing changes; neither call fails.                                    *)
(***************************************************************************)
C14_PremiumIdempotent ==
    /\ \A u \in Users : ENABLED add_premium_user(u) /\ ENABLED remove_premium_user(u)
    /\ last.op = "add_premium_user" =>
          /\ is_premium_user(premium_users, last.user)
          /\ premium_users = last.pre.premium_users \cup {last.user}
          /\ last.user \in last.pre.premium_users => Snapshot = last.pre
    /\ last.op = "remove_premium_user" =>
          /\ ~is_premium_user(premium_users, last.user)
          /\ premium_users = last.pre.premium_users \ {last.user}
          /\ last.user \notin last.pre.premium_users => Snapshot = last.pre

\* add_premium_user for a user who is in the set already, with a quota
\* record stored: the store is as before the call
C14_Witness ==
    /\ last.op = "add_premium_user"
    /\ last.user \in last.pre.premium_users
    /\ last.user \in DOMAIN user_requests
    /\ Snapshot = last.pre

(***************************************************************************)
(* C15: when the LLM call of handle_text, handle_photo or handle_document  *)
(* raises, the handler ends with no session state stored for the user,     *)
(* the user's quota record as it was when the handler started and the      *)
(* user's memory as it was.                                                *)
(***************************************************************************)
\* task t takes its last step: its handler returns
Ends(t) == tasks[t].pc # "idle" /\ tasks'[t].pc = "idle"

\* the handler of task t has logged event e
Logged(t, e) == \E i \in 1..Len(tasks[t].log) : tasks[t].log[i] = e

\* after the step: no session state of u, and the quota record and the
\* memory of u as in the tables `pre`
IdleAndUncharged(u, pre) ==
    /\ SelectState(user_state', u) = <<>>
    /\ SelectRequest(user_requests', u) = SelectRequest(pre.user_requests, u)
    /\ RowsOf(user_memory', u) = RowsOf(pre.user_memory, u)

Preceded(t, later, e) ==
    \A i \in 1..Len(tasks[t].log) :
        tasks[t].log[i] \in later => \E j \in 1..(i - 1) : tasks[t].log[j] = e

C17_OrderWithinRequest ==
    \A t \in Tasks :
        tasks[t].pc # "idle" /\ tasks[t].u \notin ADMIN_IDS =>
            /\ tasks[t].pc \in {"llm_memory", "llm_call"} => Logged(t, "left")
            /\ Preceded(t, {"llm_ok", "llm_failed"}, "left")
            /\ tasks[t].pc \in {"request_select", "request_write", "request_commit",
                                "save_now", "save_insert", "save_evict",
                                "save_commit"} => Logged(t, "llm_ok")
            /\ Preceded(t, {"charged", "saved"}, "llm_ok")
            /\ tasks[t].pc \in {"left_select", "left_premium"} =>
                  ~Logged(t, "llm_ok") /\ ~Logged(t, "llm_failed")
            /\ \A i \in 1..Len(tasks[t].log) :
                  tasks[t].log[i] = "left" =>
                      \A j \in 1..(i - 1) :
                          tasks[t].log[j] \notin {"llm_ok", "llm_failed"}

\* a run that checked, called the LLM, charged and saved, in this order
C17_Witness ==
    \E t \in Tasks :
        /\ tasks[t].u \notin ADMIN_IDS
        /\ tasks[t].log = <<"left", "llm_ok", "charged", "saved">>

(***************************************************************************)
(* C18: when a store function of a request raises (update_user_stats,      *)
(* get_requests_left, update_request_count, save_memory or                 *)
(* clear_user_state), the request ends with the user's profile, quota      *)
(* record, memory and session state as they were when it started; no       *)
(* request ends with the usage charged and the exchange not saved.         *)
(***************************************************************************)
C18_Errors ==
    {"update_user_stats_error", "get_requests_left_error",
     "update_request_count_error", "save_memory_error", "clear_user_state_error"}

C18_NoPartialWrites ==
    [][\A t \in Tasks :
          Ends(t) =>
              /\ (\E e \in C18_Errors : Logged(t, e)) =>
                    /\ SelectUser(users', tasks[t].u) =
                          SelectUser(last.pre.users, tasks[t].u)
                    /\ SelectState(user_state', tasks[t].u) =
                          SelectState(last.pre.user_state, tasks[t].u)
                    /\ SelectRequest(user_requests', tasks[t].u) =
                          SelectRequest(last.pre.user_requests, tasks[t].u)
                    /\ RowsOf(user_memory', tasks[t].u) =
                          RowsOf(last.pre.user_memory, tasks[t].u)
              /\ Logged(t, "charged") => Logged(t, "saved")]_vars

(***************************************************************************)
(* C19: when the read of the store inside get_requests_left raises for a   *)
(* non-admin user, the handler that asked makes no LLM call and sets no    *)
(* session state: the exception ends it.                                   *)
(***************************************************************************)
C19_FailClosed ==
    \A t \in Tasks :
        tasks[t].u \notin ADMIN_IDS /\ Logged(t, "get_requests_left_error") =>
            /\ tasks[t].pc = "raised"
            /\ ~Logged(t, "llm_ok") /\ ~Logged(t, "llm_failed")
            /\ SelectState(user_state, tasks[t].u) =
                  SelectState(last.pre.user_state, tasks[t].u)

\* get_requests_left raised in callbacks_handler for a button of a
\* non-admin user with no session state: none is stored
C19_Witness ==
    \E t \in Tasks :
        /\ tasks[t].h \in Buttons /\ tasks[t].u \notin ADMIN_IDS
        /\ Logged(t, "get_requests_left_error")
        /\ tasks[t].pc = "raised"
        /\ SelectState(user_state, tasks[t].u) = <<>>

(***************************************************************************)
(* C20: premium_users changes only as the effect of a text message of a    *)
(* user in ADMIN_IDS whose session state was admin_add_premium or          *)
(* admin_remove_premium; whatever commands, callbacks and messages the     *)
(* other users send, the set stays as it is and none of them ever has an   *)
(* admin_* session state.                                                  *)
(***************************************************************************)
C20_PremiumByAdminOnly ==
    /\ [](\A u \in DOMAIN user_state :
             user_state[u] \in AdminStates => u \in ADMIN_IDS)
    /\ [][premium_users' # premium_users =>
             \E t \in Tasks :
                 /\ tasks[t].h = "text" /\ tasks[t].pc = "premium_commit"
                 /\ tasks[t].u \in ADMIN_IDS
                 /\ tasks[t].state \in {<<"admin_add_premium">>,
                                        <<"admin_remove_premium">>}]_vars

\* a user outside ADMIN_IDS pressed the add-premium button of the admin
\* panel: no session state was set and the premium set is as it was
C20_Witness ==
    /\ last.op = "admin_callbacks_handler"
    /\ last.ret = <<"admin_add_premium">>
    /\ last.user \notin ADMIN_IDS
    /\ SelectState(user_state, last.user) = SelectState(last.pre.user_state, last.user)
    /\ premium_users = last.pre.premium_users

(***************************************************************************)
(* C21: get_memory(u) returns all of u's retained entries and only those,  *)
(* each once, newest first: of two returned entries the one saved later    *)
(* comes earlier (timestamps strictly increasing from save to save).       *)
(***************************************************************************)
C21_GetMemoryNewestFirst ==
    last.op = "get_memory" =>
        /\ Range(last.ret) = {r.id : r \in RowsOf(last.pre.user_memory, last.user)}
        /\ Len(last.ret) = Cardinality(RowsOf(last.pre.user_memory, last.user))
        /\ \A i, j \in 1..Len(last.ret) : i < j => last.ret[i] > last.ret[j]

\* a full memory read while another user has an entry too
C21_Witness ==
    /\ last.op = "get_memory"
    /\ Len(last.ret) = MEMORY_LIMIT
    /\ \E r \in last.pre.user_memory : r.user_id # last.user
    /\ last.ret[1] = saved[last.user][Len(saved[last.user])]

(***************************************************************************)
(* C22: the history displayed for inspection (build_memory_text, and the   *)
(* admin's view of a user's memory) lists the user's retained history      *)
(* newest first: the entry numbered 1 is the most recently saved one.      *)
(***************************************************************************)
C22_DisplayNewestFirst ==
    last.op = "build_memory_text" =>
        /\ Range(last.ret) = {r.id : r \in RowsOf(last.pre.user_memory, last.user)}
        /\ \A i, j \in 1..Len(last.ret) : i < j => last.ret[i] > last.ret[j]
        /\ last.ret # <<>> => last.ret[1] = saved[last.user][Len(saved[last.user])]

(***************************************************************************)
(* C27: add_premium_user(u) and remove_premium_user(u) leave the quota     *)
(* records as they are, and get_requests_left(u) is then max(0, new        *)
(* ceiling - today's count): 0 and not a negative number after revoking    *)
(* premium from a user with more than 50 usages today, 450 after granting  *)
(* premium to a user at 50 usages.                                         *)
(***************************************************************************)
C27_TierKeepsQuotaRecord ==
    /\ last.op \in {"add_premium_user", "remove_premium_user"} =>
          user_requests = last.pre.user_requests
    /\ LastIs("add_premium_user") =>
          LeftOn(Snapshot, last.user, today) =
              Max(0, PREMIUM_REQUEST_LIMIT - EffectiveCount(last.pre, last.user, today))
    /\ LastIs("remove_premium_user") =>
          LeftOn(Snapshot, last.user, today) =
              Max(0, REQUEST_LIMIT - EffectiveCount(last.pre, last.user, today))
    /\ LastIs("add_premium_user")
       /\ EffectiveCount(last.pre, last.user, today) = REQUEST_LIMIT =>
          LeftOn(Snapshot, last.user, today) = PREMIUM_REQUEST_LIMIT - REQUEST_LIMIT

\* premium revoked from a user with more than 50 usages today: 0 left
C27_Witness ==
    /\ LastIs("remove_premium_user")
    /\ last.user \in last.pre.premium_users
    /\ today = last.today
    /\ EffectiveCount(last.pre, last.user, today) > REQUEST_LIMIT
    /\ user_requests = last.pre.user_requests
    /\ LeftOn(Snapshot, last.user, today) = 0

(***************************************************************************)
(* C23: when the download of the photo or the document fails in            *)
(* handle_photo or handle_document, the handler ends with no session state *)
(* stored for the user, nothing charged and nothing written to memory.     *)
(***************************************************************************)
C23_DownloadFailure ==
    [][\A t \in Tasks :
          tasks[t].pc = "download" /\ Ends(t) =>
              IdleAndUncharged(tasks[t].u, last.pre)]_vars

(***************************************************************************)
(* C25: when a user whose session state is not awaiting_text or            *)
(* awaiting_conspect (awaiting_photo, for one) sends a document, no        *)
(* session state is stored for the user after the handler.                 *)
(***************************************************************************)
C25_IncompatibleInput ==
    [][\A t \in Tasks :
          tasks[t].h = "document" /\ tasks[t].pc = "get_user_state" /\ Ends(t) =>
              SelectState(user_state', tasks[t].u) = <<>>]_vars

(***************************************************************************)
(* C24: a handler run on its own that ends by delivering the answer        *)
(* (handle_text, handle_photo, handle_document) or by consuming the input  *)
(* of an admin sub-flow, and every explicit cancellation (btn_cancel,      *)
(* btn_back_main, /start, and admin_back_main, admin_cancel_broadcast of   *)
(* an admin), leaves no session state stored for the user, whatever state  *)
(* was stored before.                                                      *)
(***************************************************************************)
\* the update handled last was a cancellation
Cancelled ==
    \/ last.op = "cmd_start"
    \/ last.op = "callbacks_handler" /\ last.ret[1] \in {"btn_cancel", "btn_back_main"}
    \/ /\ last.op = "admin_callbacks_handler" /\ last.user \in ADMIN_IDS
       /\ last.ret[1] \in {"admin_back_main", "admin_cancel_broadcast"}

\* task t takes the last step of a run that delivered the answer or
\* consumed the input of an admin sub-flow
Completes(t) ==
    /\ Ends(t)
    /\ \/ Logged(t, "saved")
       \/ /\ tasks[t].pc \in {"clear_commit", "get_all_users_stats"}
          /\ tasks[t].u \in ADMIN_IDS
          /\ tasks[t].state # <<>> /\ tasks[t].state[1] \in AdminStates

C24_ReturnToIdle ==
    /\ [](Cancelled => SelectState(user_state, last.user) = <<>>)
    /\ [][\A t \in Tasks :
             Completes(t) => SelectState(user_state', tasks[t].u) = <<>>]_vars

\* btn_cancel pressed by a user in state awaiting_photo: no state is left
C24_Witness ==
    /\ last.op = "callbacks_handler" /\ last.ret = <<"btn_cancel">>
    /\ SelectState(last.pre.user_state, last.user) = <<"awaiting_photo">>
    /\ SelectState(user_state, last.user) = <<>>

(***************************************************************************)
(* C26: an admin who is in a sub-flow (admin_broadcast, admin_view_memory, *)
(* admin_add_premium, admin_remove_premium) and presses admin_back, the    *)
(* only button of the sub-flow's prompt, has no session state afterwards,  *)
(* so that the admin's next text is not taken for the sub-flow's input.    *)
(***************************************************************************)
C26_AdminBackCancels ==
    /\ last.op = "admin_callbacks_handler" /\ last.ret = <<"admin_back">>
    /\ last.user \in ADMIN_IDS
    /\ SelectState(last.pre.user_state, last.user) # <<>>
    /\ last.pre.user_state[last.user] \in AdminStates
    => SelectState(user_state, last.user) = <<>>

(***************************************************************************)
(* C28: under any interleaving of handlers, a step of a handler that runs  *)
(* for user u (update_request_count, get_requests_left, save_memory,       *)
(* clear_memory, set_user_state, clear_user_state, update_user_stats)      *)
(* leaves the quota record, the memory entries, the session state and the  *)
(* profile of every other user as they were.                               *)
(***************************************************************************)
\* what the store holds for user v
DataOf(v, requests, memory, state, profiles) ==
    <<SelectRequest(requests, v), RowsOf(memory, v), SelectState(state, v),
      SelectUser(profiles, v)>>

C28_PerUserIsolation ==
    [][\A t \in Tasks, v \in Users :
          tasks'[t] # tasks[t] /\ tasks[t].u # 0 /\ v # tasks[t].u
          => DataOf(v, user_requests', user_memory', user_state', users')
             = DataOf(v, user_requests, user_memory, user_state, users)]_vars

\* user 2 has been charged for an answered request, has its exchange in
\* memory and is about to clear its session state, while user 1, whose
\* handler runs, keeps session state, memory entries, quota record and
\* profile
C28_Witness ==
    /\ \E t \in Tasks : tasks[t].u = 1 /\ tasks[t].pc \notin {"idle", "get_user_state"}
    /\ \E t \in Tasks : tasks[t].u = 2 /\ tasks[t].pc = "clear_commit"
    /\ saved[2] # <<>> /\ charged[2] > 0
    /\ SelectState(user_state, 1) # <<>>
    /\ RowsOf(user_memory, 1) # {}
    /\ SelectRequest(user_requests, 1) # <<>>
    /\ SelectUser(users, 1) # <<>>

(***************************************************************************)
(* C29: a message handler that read the session state before a menu        *)
(* selection of the same user was stored does not remove the state that    *)
(* selection wrote: its clear_user_state leaves the user's session state   *)
(* as it is.                                                               *)
(***************************************************************************)
C29_SelectionSurvives ==
    [][\A t \in Tasks :
          /\ tasks[t].h \in {"text", "photo", "document"}
          /\ tasks[t].pc = "clear_commit"
          /\ Logged(t, "overtaken")
          /\ tasks'[t] # tasks[t]
          => SelectState(user_state', tasks[t].u)
             = SelectState(user_state, tasks[t].u)]_vars

(***************************************************************************)
(* C30: a composed broadcast text is broadcast at most once, also when     *)
(* admin_confirm_broadcast callbacks interleave: send_broadcast_message    *)
(* never starts for a text that another confirmation of the same admin     *)
(* has broadcast or is broadcasting.                                       *)
(***************************************************************************)
C30_BroadcastOnce ==
    [][\A t \in Tasks :
          tasks[t].pc = "edit_text" /\ tasks'[t].pc = "send_broadcast_message"
          => /\ ~Logged(t, "broadcast")
             /\ \A t2 \in Tasks \ {t} :
                   ~(tasks[t2].u = tasks[t].u
                     /\ tasks[t2].pc = "send_broadcast_message")]_vars

(***************************************************************************)
(* C31: under any interleaving of update_user_stats calls for a user,      *)
(* first interactions included, every call completes without error and     *)
(* adds exactly one to the counter of its message type in the user's one   *)
(* profile row; no counter ever decreases, first_seen never changes and    *)
(* no row is deleted.                                                      *)
(***************************************************************************)
\* the counter of message type h in a profile
CounterOf(profile, h) ==
    CASE h = "text" -> profile.message_count
      [] h = "photo" -> profile.photo_count
      [] OTHER -> profile.document_count

\* the profiles only grow: rows stay, first_seen stays, counters do not fall
ProfilesKept ==
    \A v \in DOMAIN users :
        /\ v \in DOMAIN users'
        /\ users'[v].first_seen = users[v].first_seen
        /\ \A h \in {"text", "photo", "document"} :
              CounterOf(users'[v], h) >= CounterOf(users[v], h)

\* the COMMIT of update_user_stats in task t counts one message of its type
CountsOne(t) ==
    LET u == tasks[t].u
        before(h) == IF u \in DOMAIN users THEN CounterOf(users[u], h) ELSE 0
    IN  /\ u \in DOMAIN users'
        /\ \A h \in {"text", "photo", "document"} :
              CounterOf(users'[u], h)
                 = before(h) + (IF h = tasks[t].h THEN 1 ELSE 0)

C31_ProfileIntegrity ==
    [][/\ ProfilesKept
       /\ \A t \in Tasks :
             /\ tasks[t].pc = "stats_write" /\ tasks'[t] # tasks[t]
                => tasks'[t].pc = "stats_commit"
             /\ tasks[t].pc = "stats_commit" /\ tasks'[t] # tasks[t]
                => CountsOne(t)]_vars

(***************************************************************************)
(* C32: a flow button (btn_solve_text, btn_solve_photo, btn_conspect)      *)
(* pressed by a non-admin user whose remaining allowance is 0 leaves the   *)
(* session states as they were; pressed with allowance above 0, or by an   *)
(* admin, it sets the user's session state to the awaiting state of the    *)
(* button, whatever state was stored before.                               *)
(***************************************************************************)
\* the awaiting state a flow button stands for
GatedState(data) ==
    CASE data = "btn_solve_text" -> "awaiting_text"
      [] data = "btn_solve_photo" -> "awaiting_photo"
      [] data = "btn_conspect" -> "awaiting_conspect"

C32_GatedSelection ==
    [][\A t \in Tasks :
          tasks[t].h \in {"btn_solve_text", "btn_solve_photo", "btn_conspect"}
          /\ Ends(t)
          => LET u == tasks[t].u
             IN  IF u \notin ADMIN_IDS /\ Allowance(last.pre, u, today) <= 0
                 THEN user_state' = last.pre.user_state
                 ELSE user_state'
                      = (u :> GatedState(tasks[t].h)) @@ last.pre.user_state]_vars

\* a non-admin user with allowance left and a state stored has pressed the
\* button of another flow: the state is the one of the button
C32_Witness ==
    /\ \A t \in Tasks : tasks[t].pc = "idle"
    /\ last.op = "btn_solve_photo" /\ last.user \notin ADMIN_IDS
    /\ Allowance(last.pre, last.user, today) > 0
    /\ SelectState(last.pre.user_state, last.user) = <<"awaiting_text">>
    /\ SelectState(user_state, last.user) = <<"awaiting_photo">>

C34_InsertionOrderTieBreak ==
    [][\A t \in Tasks :
          tasks[t].pc = "save_commit" /\ tasks'[t] # tasks[t]
          => LET u == tasks[t].u
                 mem == SelectMemory(user_memory', u)
                 kept == RowsOf(user_memory', u)
                 evicted == RowsOf(user_memory, u) \ kept
             IN  /\ \A i, j \in 1..Len(mem) : i < j => mem[i] > mem[j]
                 /\ \E r \in kept : r.id = memory_seq'
                 /\ \A e \in evicted, k \in kept : e.id < k.id]_vars

(***************************************************************************)
(* C35: the store functions of src/database.py and of src/main.py are      *)
(* observationally equivalent.  Called on the same store for the same      *)
(* user, premium and admin users included, get_requests_left returns the   *)
(* same value in both files and update_request_count leaves the same       *)
(* quota records.                                                          *)
(***************************************************************************)
C35_SameStoreFunctions ==
    /\ last.op = "get_requests_left"
       => last.ret = <<database_RequestsLeft(
                          SelectRequest(last.pre.user_requests, last.user),
                          last.today)>>
    /\ last.op = "update_request_count" /\ today = last.today
       => user_requests
          = database_WriteRequest(last.pre.user_requests, last.user, last.today)

=============================================================================
